---- MODULE Spec2Model ----
(***************************************************************************)
(* A model of pg_num2int_direct_comp: exact comparison between numeric /   *)
(* float4 / float8 values and int2 / int4 / int8 integers, and the planner *)
(* support function that rewrites cross-type predicates into native        *)
(* integer predicates.                                                     *)
(*                                                                         *)
(* TLC's integers are 32 bits wide, the program's are 64 bits wide and the *)
(* exact values it is compared against are wider still.  Every integer of  *)
(* the program is therefore a mathematical integer held as a sign and a    *)
(* magnitude in base 2^16 limbs (least significant first); the width of a  *)
(* C type appears as an explicit range test where the code relies on it.   *)
(***************************************************************************)
EXTENDS Integers, Sequences, FiniteSets, TLC

VARIABLES
    oid_cache,   \* the per-backend OperatorOidCache: [count, ops]
    build,       \* what this build does where the C code has undefined behaviour
    args,        \* the arguments of the call under study
    ret          \* what the last call returned (NoCall before any call)

vars == <<oid_cache, build, args, ret>>

-----------------------------------------------------------------------------
(* Natural numbers as limb sequences.                                      *)

LimbBase == 2 ^ 16

Max2(a, b) == IF a >= b THEN a ELSE b
Min2(a, b) == IF a <= b THEN a ELSE b

Limb(m, i) == IF i >= 1 /\ i <= Len(m) THEN m[i] ELSE 0

RECURSIVE NStrip(_)
NStrip(m) ==
    IF m = <<>> THEN m
    ELSE IF m[Len(m)] = 0 THEN NStrip(SubSeq(m, 1, Len(m) - 1))
    ELSE m

RECURSIVE NCmpFrom(_, _, _)
NCmpFrom(a, b, i) ==
    IF i = 0 THEN 0
    ELSE IF Limb(a, i) < Limb(b, i) THEN -1
    ELSE IF Limb(a, i) > Limb(b, i) THEN 1
    ELSE NCmpFrom(a, b, i - 1)

NCmp(a, b) == NCmpFrom(a, b, Max2(Len(a), Len(b)))

RECURSIVE NAddC(_, _, _, _)
NAddC(a, b, i, c) ==
    IF i > Max2(Len(a), Len(b))
    THEN (IF c = 0 THEN <<>> ELSE <<c>>)
    ELSE LET s == Limb(a, i) + Limb(b, i) + c
         IN  <<s % LimbBase>> \o NAddC(a, b, i + 1, s \div LimbBase)

NAdd(a, b) == NStrip(NAddC(a, b, 1, 0))

\* a - b for a >= b
RECURSIVE NSubC(_, _, _, _)
NSubC(a, b, i, c) ==
    IF i > Len(a) THEN <<>>
    ELSE LET s == Limb(a, i) - Limb(b, i) - c
         IN  IF s < 0
             THEN <<s + LimbBase>> \o NSubC(a, b, i + 1, 1)
             ELSE <<s>> \o NSubC(a, b, i + 1, 0)

NSub(a, b) == NStrip(NSubC(a, b, 1, 0))

\* a * k + c for a small k (k < 2^15) and c < 2^16
RECURSIVE NMulC(_, _, _, _)
NMulC(a, k, i, c) ==
    IF i > Len(a)
    THEN (IF c = 0 THEN <<>> ELSE <<c>>)
    ELSE LET s == a[i] * k + c
         IN  <<s % LimbBase>> \o NMulC(a, k, i + 1, s \div LimbBase)

NMulAdd(a, k, c) == NStrip(NMulC(a, k, 1, c))

\* a \div k and a % k for a small k (k < 2^15), most significant limb first
RECURSIVE NDivC(_, _, _, _)
NDivC(a, k, i, r) ==
    IF i = 0 THEN <<>>
    ELSE LET s == r * LimbBase + a[i]
         IN  NDivC(a, k, i - 1, s % k) \o <<s \div k>>

NDiv(a, k) == NStrip(NDivC(a, k, Len(a), 0))

RECURSIVE NModC(_, _, _, _)
NModC(a, k, i, r) ==
    IF i = 0 THEN r ELSE NModC(a, k, i - 1, (r * LimbBase + a[i]) % k)

NMod(a, k) == NModC(a, k, Len(a), 0)

NFromSmall(n) ==
    NStrip(<<n % LimbBase, (n \div LimbBase) % LimbBase>>)

RECURSIVE SmallBitLen(_)
SmallBitLen(n) == IF n = 0 THEN 0 ELSE 1 + SmallBitLen(n \div 2)

LimbBits == SmallBitLen(LimbBase) - 1

NBitLen(m) ==
    IF m = <<>> THEN 0 ELSE LimbBits * (Len(m) - 1) + SmallBitLen(m[Len(m)])

Zeros(n) == [i \in 1..n |-> 0]

\* m * 2^k
NShl(m, k) ==
    IF m = <<>> THEN m
    ELSE Zeros(k \div LimbBits) \o NMulAdd(m, 2 ^ (k % LimbBits), 0)

\* m \div 2^k
NShr(m, k) ==
    LET q == k \div LimbBits
        r == k % LimbBits
    IN  IF q >= Len(m) THEN <<>>
        ELSE NStrip([i \in 1..(Len(m) - q) |->
                 (Limb(m, i + q) \div (2 ^ r))
                 + (Limb(m, i + q + 1) % (2 ^ r)) * (2 ^ (LimbBits - r))])

\* TRUE iff m is a multiple of 2^k
NLowZero(m, k) == NShl(NShr(m, k), k) = m

-----------------------------------------------------------------------------
(* Integers: [neg, mag], zero is [neg |-> FALSE, mag |-> <<>>].            *)

Big(neg, mag) == [neg |-> (neg /\ mag # <<>>), mag |-> mag]

BZero == Big(FALSE, <<>>)
BInt(n) == IF n < 0 THEN Big(TRUE, NFromSmall(-n)) ELSE Big(FALSE, NFromSmall(n))
BOne == BInt(1)

BNeg(a) == Big(~a.neg, a.mag)
BAbs(a) == Big(FALSE, a.mag)
BSign(a) == IF a.mag = <<>> THEN 0 ELSE IF a.neg THEN -1 ELSE 1

BCmp(a, b) ==
    IF a.neg # b.neg THEN (IF a.neg THEN -1 ELSE 1)
    ELSE IF a.neg THEN NCmp(b.mag, a.mag)
    ELSE NCmp(a.mag, b.mag)

BLt(a, b) == BCmp(a, b) < 0
BLe(a, b) == BCmp(a, b) <= 0
BGt(a, b) == BCmp(a, b) > 0
BGe(a, b) == BCmp(a, b) >= 0

BAdd(a, b) ==
    IF a.neg = b.neg THEN Big(a.neg, NAdd(a.mag, b.mag))
    ELSE IF NCmp(a.mag, b.mag) >= 0 THEN Big(a.neg, NSub(a.mag, b.mag))
    ELSE Big(b.neg, NSub(b.mag, a.mag))

BSub(a, b) == BAdd(a, BNeg(b))

\* a * k for a small k >= 0
BMul(a, k) == Big(a.neg, NMulAdd(a.mag, k, 0))

\* C's integer division: the quotient truncated toward zero
BDivTrunc(a, k) == Big(a.neg, NDiv(a.mag, k))

BPow2(k) == Big(FALSE, NShl(<<1>>, k))

\* The low `bits` bits of a, read as a two's complement number: what a store
\* into a signed C integer of that width keeps.
Wrap(a, bits) ==
    LET k    == bits \div LimbBits
        low  == NStrip(SubSeq(a.mag, 1, Min2(Len(a.mag), k)))
        m    == IF a.neg /\ low # <<>> THEN NSub(NShl(<<1>>, bits), low) ELSE low
    IN  IF NCmp(m, NShl(<<1>>, bits - 1)) >= 0
        THEN Big(TRUE, NSub(NShl(<<1>>, bits), m))
        ELSE Big(FALSE, m)

-----------------------------------------------------------------------------
(* The C integer types.                                                    *)

PG_INT16_MIN == BNeg(BPow2(15))
PG_INT16_MAX == BSub(BPow2(15), BOne)
PG_INT32_MIN == BNeg(BPow2(31))
PG_INT32_MAX == BSub(BPow2(31), BOne)
PG_INT64_MIN == BNeg(BPow2(63))
PG_INT64_MAX == BSub(BPow2(63), BOne)

INT2OID == 21
INT4OID == 23
INT8OID == 20
NUMERICOID == 1700
FLOAT4OID == 700
FLOAT8OID == 701

IntTypes == {INT2OID, INT4OID, INT8OID}

TypeBits(int_type) ==
    IF int_type = INT2OID THEN 16 ELSE IF int_type = INT4OID THEN 32 ELSE 64

TypeMin(int_type) == BNeg(BPow2(TypeBits(int_type) - 1))
TypeMax(int_type) == BSub(BPow2(TypeBits(int_type) - 1), BOne)
InType(v, int_type) == BGe(v, TypeMin(int_type)) /\ BLe(v, TypeMax(int_type))

\* int64 arithmetic: the stored result of an int64 expression
I64(a) == Wrap(a, 64)

-----------------------------------------------------------------------------
(* Numeric values: [special, sign, weight, digits], digits in base 10000,  *)
(* most significant first.                                                 *)

NUM2INT_NBASE == 10000
NUM2INT_NUMERIC_POS == 0
NUM2INT_NUMERIC_NEG == 16384

NUM2INT_NUMERIC_IS_SPECIAL(n) == n.special # "none"
NUM2INT_NUMERIC_IS_NAN(n) == n.special = "nan"
NUM2INT_NUMERIC_IS_PINF(n) == n.special = "pinf"
NUM2INT_NUMERIC_IS_NINF(n) == n.special = "ninf"
NUM2INT_NUMERIC_SIGN(n) == n.sign
NUM2INT_NUMERIC_WEIGHT(n) == n.weight
NUM2INT_NUMERIC_NDIGITS(n) == Len(n.digits)
\* digits[i] of the C array (indexed from 0)
NUM2INT_NUMERIC_DIGITS(n, i) == n.digits[i + 1]

num2int_numeric_sign(num) ==
    IF NUM2INT_NUMERIC_IS_SPECIAL(num)
    THEN IF NUM2INT_NUMERIC_IS_NAN(num) THEN 0
         ELSE IF NUM2INT_NUMERIC_IS_PINF(num) THEN 1
         ELSE -1
    ELSE IF NUM2INT_NUMERIC_NDIGITS(num) = 0 THEN 0
    ELSE IF NUM2INT_NUMERIC_SIGN(num) = NUM2INT_NUMERIC_POS THEN 1 ELSE -1

num2int_numeric_is_integral(num) ==
    IF NUM2INT_NUMERIC_IS_SPECIAL(num) THEN ~NUM2INT_NUMERIC_IS_NAN(num)
    ELSE IF NUM2INT_NUMERIC_NDIGITS(num) = 0 THEN TRUE
    ELSE NUM2INT_NUMERIC_NDIGITS(num) <= NUM2INT_NUMERIC_WEIGHT(num) + 1

Failed == [ok |-> FALSE, result |-> BZero]
Ok(v) == [ok |-> TRUE, result |-> v]

\* the digit at C index i, zero past the stored digits
PaddedDigit(num, i) ==
    BInt(IF i < NUM2INT_NUMERIC_NDIGITS(num) THEN NUM2INT_NUMERIC_DIGITS(num, i) ELSE 0)

\* the accumulation loop of num2int_numeric_to_int64, from index i with val
RECURSIVE to_int64_loop(_, _, _)
to_int64_loop(num, i, val) ==
    LET weight == NUM2INT_NUMERIC_WEIGHT(num)
        sign   == NUM2INT_NUMERIC_SIGN(num)
        digit  == PaddedDigit(num, i)
        newval == I64(BMul(val, NUM2INT_NBASE))
    IN  IF i > weight
        THEN Ok(IF sign = NUM2INT_NUMERIC_POS THEN val ELSE I64(BNeg(val)))
        ELSE IF BGt(val, BDivTrunc(PG_INT64_MAX, NUM2INT_NBASE)) THEN Failed
        ELSE IF BGt(digit, I64(BSub(PG_INT64_MAX, newval)))
             THEN IF sign = NUM2INT_NUMERIC_POS THEN Failed
                  ELSE IF newval = I64(BAdd(I64(BSub(PG_INT64_MAX, digit)), BOne))
                          /\ i = weight
                       THEN Ok(PG_INT64_MIN)
                       ELSE Failed
        ELSE to_int64_loop(num, i + 1, I64(BAdd(newval, digit)))

\* the extraction without the PG_INT64_MIN special case
RECURSIVE to_int64_loop_no_min(_, _, _)
to_int64_loop_no_min(num, i, val) ==
    LET weight == NUM2INT_NUMERIC_WEIGHT(num)
        sign   == NUM2INT_NUMERIC_SIGN(num)
        digit  == PaddedDigit(num, i)
        newval == I64(BMul(val, NUM2INT_NBASE))
    IN  IF i > weight
        THEN Ok(IF sign = NUM2INT_NUMERIC_POS THEN val ELSE I64(BNeg(val)))
        ELSE IF BGt(val, BDivTrunc(PG_INT64_MAX, NUM2INT_NBASE)) THEN Failed
        ELSE IF BGt(digit, I64(BSub(PG_INT64_MAX, newval))) THEN Failed
        ELSE to_int64_loop_no_min(num, i + 1, I64(BAdd(newval, digit)))

num2int_numeric_to_int64_no_min(num) ==
    IF NUM2INT_NUMERIC_IS_SPECIAL(num) THEN Failed
    ELSE IF NUM2INT_NUMERIC_NDIGITS(num) = 0 THEN Ok(BZero)
    ELSE IF NUM2INT_NUMERIC_NDIGITS(num) > NUM2INT_NUMERIC_WEIGHT(num) + 1 THEN Failed
    ELSE IF NUM2INT_NUMERIC_WEIGHT(num) > 4 THEN Failed
    ELSE to_int64_loop_no_min(num, 0, BZero)

num2int_numeric_to_int64(num) ==
    IF NUM2INT_NUMERIC_IS_SPECIAL(num) THEN Failed
    ELSE IF NUM2INT_NUMERIC_NDIGITS(num) = 0 THEN Ok(BZero)
    ELSE IF NUM2INT_NUMERIC_NDIGITS(num) > NUM2INT_NUMERIC_WEIGHT(num) + 1 THEN Failed
    ELSE IF NUM2INT_NUMERIC_WEIGHT(num) > 4 THEN Failed
    ELSE to_int64_loop(num, 0, BZero)

\* the loop over the integral digits shared by num2int_numeric_floor_to_int64
\* and the fractional path of numeric_cmp_int64_direct: the magnitude of the
\* integral part, or ok = FALSE when a multiply or an add would overflow
RECURSIVE floor_loop(_, _, _, _)
floor_loop(num, integral_ndigits, i, floor_val) ==
    LET digit == PaddedDigit(num, i)
        shifted == I64(BMul(floor_val, NUM2INT_NBASE))
    IN  IF i >= integral_ndigits THEN Ok(floor_val)
        ELSE IF BGt(floor_val, BDivTrunc(PG_INT64_MAX, NUM2INT_NBASE)) THEN Failed
        ELSE IF BGt(digit, I64(BSub(PG_INT64_MAX, shifted))) THEN Failed
        ELSE floor_loop(num, integral_ndigits, i + 1, I64(BAdd(shifted, digit)))

\* the floor that truncates toward zero: no "- 1" for a negative fraction
num2int_numeric_floor_to_int64_trunc(num) ==
    LET ndigits == NUM2INT_NUMERIC_NDIGITS(num)
        weight  == NUM2INT_NUMERIC_WEIGHT(num)
        sign    == NUM2INT_NUMERIC_SIGN(num)
        integral_ndigits == weight + 1
        walk    == floor_loop(num, integral_ndigits, 0, BZero)
    IN  IF ndigits = 0 THEN Ok(BZero)
        ELSE IF weight > 4 THEN Failed
        ELSE IF integral_ndigits <= 0 THEN Ok(BZero)
        ELSE IF ndigits <= integral_ndigits THEN num2int_numeric_to_int64(num)
        ELSE IF ~walk.ok THEN Failed
        ELSE IF sign = NUM2INT_NUMERIC_POS THEN Ok(walk.result)
        ELSE Ok(I64(BNeg(walk.result)))

\* the floor whose add check refuses a sum equal to PG_INT64_MAX
RECURSIVE floor_loop_ge(_, _, _, _)
floor_loop_ge(num, integral_ndigits, i, floor_val) ==
    LET digit == PaddedDigit(num, i)
        shifted == I64(BMul(floor_val, NUM2INT_NBASE))
    IN  IF i >= integral_ndigits THEN Ok(floor_val)
        ELSE IF BGt(floor_val, BDivTrunc(PG_INT64_MAX, NUM2INT_NBASE)) THEN Failed
        ELSE IF BGe(digit, I64(BSub(PG_INT64_MAX, shifted))) THEN Failed
        ELSE floor_loop_ge(num, integral_ndigits, i + 1, I64(BAdd(shifted, digit)))

num2int_numeric_floor_to_int64_ge(num) ==
    LET ndigits == NUM2INT_NUMERIC_NDIGITS(num)
        weight  == NUM2INT_NUMERIC_WEIGHT(num)
        sign    == NUM2INT_NUMERIC_SIGN(num)
        integral_ndigits == weight + 1
        walk    == floor_loop_ge(num, integral_ndigits, 0, BZero)
    IN  IF ndigits = 0 THEN Ok(BZero)
        ELSE IF weight > 4 THEN Failed
        ELSE IF integral_ndigits <= 0
             THEN Ok(IF sign = NUM2INT_NUMERIC_POS THEN BZero ELSE BInt(-1))
        ELSE IF ndigits <= integral_ndigits THEN num2int_numeric_to_int64(num)
        ELSE IF ~walk.ok THEN Failed
        ELSE IF sign = NUM2INT_NUMERIC_POS THEN Ok(walk.result)
        ELSE Ok(I64(BSub(I64(BNeg(walk.result)), BOne)))

num2int_numeric_floor_to_int64(num) ==
    LET ndigits == NUM2INT_NUMERIC_NDIGITS(num)
        weight  == NUM2INT_NUMERIC_WEIGHT(num)
        sign    == NUM2INT_NUMERIC_SIGN(num)
        integral_ndigits == weight + 1
        walk    == floor_loop(num, integral_ndigits, 0, BZero)
    IN  IF ndigits = 0 THEN Ok(BZero)
        ELSE IF weight > 4 THEN Failed
        ELSE IF integral_ndigits <= 0
             THEN Ok(IF sign = NUM2INT_NUMERIC_POS THEN BZero ELSE BInt(-1))
        ELSE IF ndigits <= integral_ndigits THEN num2int_numeric_to_int64(num)
        ELSE IF ~walk.ok THEN Failed
        ELSE IF sign = NUM2INT_NUMERIC_POS THEN Ok(walk.result)
        ELSE Ok(I64(BSub(I64(BNeg(walk.result)), BOne)))

-----------------------------------------------------------------------------
(* The exact value of a numeric, as the rational N / 10000^scale: N is the  *)
(* whole digit string read as one integer, scale the number of base-10000  *)
(* digits after the decimal point.  This is the reference the digit walks  *)
(* are compared with; it has no width and no early exit.                   *)

RECURSIVE DigitsNat(_, _, _)
DigitsNat(digits, i, acc) ==
    IF i > Len(digits) THEN acc
    ELSE DigitsNat(digits, i + 1, NMulAdd(acc, NUM2INT_NBASE, digits[i]))

RECURSIVE NMulPow(_, _)
NMulPow(m, k) == IF k <= 0 THEN m ELSE NMulPow(NMulAdd(m, NUM2INT_NBASE, 0), k - 1)

RECURSIVE NDivPow(_, _)
NDivPow(m, k) == IF k <= 0 THEN m ELSE NDivPow(NDiv(m, NUM2INT_NBASE), k - 1)

NumScale(num) == Len(num.digits) - 1 - num.weight
NumNeg(num) == num.sign = NUM2INT_NUMERIC_NEG
NumN(num) == DigitsNat(num.digits, 1, <<>>)

ExactHasFraction(num) ==
    LET N == NumN(num)
        s == NumScale(num)
    IN  s > 0 /\ NMulPow(NDivPow(N, s), s) # N

\* floor of the exact value
ExactFloor(num) ==
    LET N == NumN(num)
        s == NumScale(num)
        q == IF s > 0 THEN NDivPow(N, s) ELSE NMulPow(N, -s)
    IN  IF ~NumNeg(num) THEN Big(FALSE, q)
        ELSE IF ExactHasFraction(num) THEN Big(TRUE, NAdd(q, <<1>>))
        ELSE Big(TRUE, q)

\* the exact value truncated toward zero
ExactTrunc(num) ==
    LET N == NumN(num)
        s == NumScale(num)
    IN  Big(NumNeg(num), IF s > 0 THEN NDivPow(N, s) ELSE NMulPow(N, -s))

\* the sign of (exact value of num) - i
ExactCmp(num, i) ==
    LET s == NumScale(num)
    IN  BCmp(Big(NumNeg(num), NMulPow(NumN(num), -s)), Big(i.neg, NMulPow(i.mag, s)))

-----------------------------------------------------------------------------
(* The numeric values the calls are tried on.                              *)

MaxNDigits == 2
MaxWeight == 5
MaxFracWeight == 2

DigitChoices == {0, 1, 9999}

Finite(sign, weight, digits) ==
    [special |-> "none", sign |-> sign, weight |-> weight, digits |-> digits]

NumericZero == Finite(NUM2INT_NUMERIC_POS, 0, <<>>)
NumericNaN == [special |-> "nan", sign |-> NUM2INT_NUMERIC_POS, weight |-> 0, digits |-> <<>>]
NumericPInf == [special |-> "pinf", sign |-> NUM2INT_NUMERIC_POS, weight |-> 0, digits |-> <<>>]
NumericNInf == [special |-> "ninf", sign |-> NUM2INT_NUMERIC_NEG, weight |-> 0, digits |-> <<>>]
SpecialNumerics == {NumericNaN, NumericPInf, NumericNInf}

\* a stored numeric has no leading and no trailing zero digit
Canonical(digits) == digits # <<>> /\ digits[1] # 0 /\ digits[Len(digits)] # 0

CanonicalDigitSeqs ==
    UNION {{ds \in [1..n -> DigitChoices] : Canonical(ds)} : n \in 1..MaxNDigits}

GeneratedNumerics ==
    {Finite(s, w, ds) : s \in {NUM2INT_NUMERIC_POS, NUM2INT_NUMERIC_NEG},
                        w \in (0 - MaxFracWeight)..MaxWeight,
                        ds \in CanonicalDigitSeqs}

\* the base-10000 digits of a natural number, most significant first
RECURSIVE Base10000(_)
Base10000(m) ==
    IF m = <<>> THEN <<>>
    ELSE Base10000(NDiv(m, NUM2INT_NBASE)) \o <<NMod(m, NUM2INT_NBASE)>>

RECURSIVE StripTrailingZeros(_)
StripTrailingZeros(ds) ==
    IF ds # <<>> /\ ds[Len(ds)] = 0
    THEN StripTrailingZeros(SubSeq(ds, 1, Len(ds) - 1))
    ELSE ds

\* the stored numeric equal to the integer v, plus one half when half is set
\* (v + 0.5 for v >= 0 and v - 0.5 for v < 0)
NumericOf(v, half) ==
    LET ds == Base10000(v.mag)
        all == IF half THEN ds \o <<5000>> ELSE StripTrailingZeros(ds)
    IN  IF all = <<>> THEN NumericZero
        ELSE Finite(IF v.neg THEN NUM2INT_NUMERIC_NEG ELSE NUM2INT_NUMERIC_POS,
                    Len(ds) - 1, all)

\* magnitudes around the limits of the three integer types
BoundaryMagnitudes ==
    {BZero, BInt(10), BInt(100)}
    \cup {BAdd(BPow2(k), BInt(j)) : k \in {15, 31, 63}, j \in {-2, -1, 0, 1}}

BoundaryNumerics ==
    {NumericOf(IF neg THEN BNeg(m) ELSE m, half) :
        m \in BoundaryMagnitudes, neg \in BOOLEAN, half \in BOOLEAN}
    \cup {Finite(NUM2INT_NUMERIC_POS, 4, <<9999, 9999, 9999, 9999, 9999>>),
          Finite(NUM2INT_NUMERIC_NEG, 4, <<9999, 9999, 9999, 9999, 9999, 5000>>),
          Finite(NUM2INT_NUMERIC_NEG, -1, <<5000>>)}

FiniteNumerics == GeneratedNumerics \cup BoundaryNumerics
Numerics == FiniteNumerics \cup SpecialNumerics

-----------------------------------------------------------------------------
(* State.                                                                  *)

NoCall == [fn |-> "none"]

EmptyCache == [count |-> 0, ops |-> <<>>]

\* out-of-range float -> int casts give the "integer indefinite" value
\* (INT_MIN) on x86-64 and saturate on AArch64; llabs(INT64_MIN) either wraps
\* to INT64_MIN or is folded as if it were a large positive value
Builds == [cast : {"indefinite", "saturate"}, abs_min : {"wraps", "positive"}]
DefaultBuild == [cast |-> "indefinite", abs_min |-> "wraps"]

-----------------------------------------------------------------------------
(* The digit model called on its own.                                      *)

InitDigits ==
    /\ oid_cache = EmptyCache
    /\ build = DefaultBuild
    /\ args \in {[num |-> n] : n \in Numerics}
    /\ ret = NoCall

NumericToInt64 ==
    /\ ret' = [fn |-> "num2int_numeric_to_int64",
               out |-> num2int_numeric_to_int64(args.num)]
    /\ UNCHANGED <<oid_cache, build, args>>

\* the callers check for NaN and Infinity first
NumericFloorToInt64 ==
    /\ ~NUM2INT_NUMERIC_IS_SPECIAL(args.num)
    /\ ret' = [fn |-> "num2int_numeric_floor_to_int64",
               out |-> num2int_numeric_floor_to_int64(args.num)]
    /\ UNCHANGED <<oid_cache, build, args>>

NextDigits == NumericToInt64 \/ NumericFloorToInt64

SpecDigits == InitDigits /\ [][NextDigits]_vars

IsFloorCall == ret.fn = "num2int_numeric_floor_to_int64"
IsToInt64Call == ret.fn = "num2int_numeric_to_int64"

\* C4: whenever num2int_numeric_floor_to_int64 succeeds, its result is the
\* largest integer not greater than the numeric: -(truncated magnitude) - 1
\* for a negative value with a fraction, the truncated magnitude for a
\* positive one, the value itself when it is integral.
C4_FloorIsFloor ==
    (IsFloorCall /\ ret.out.ok) =>
        /\ ret.out.result = ExactFloor(args.num)
        /\ (NumNeg(args.num) /\ ExactHasFraction(args.num)) =>
               ret.out.result = BSub(ExactTrunc(args.num), BOne)
        /\ ~(NumNeg(args.num) /\ ExactHasFraction(args.num)) =>
               ret.out.result = ExactTrunc(args.num)
        /\ (args.num = NumericOf(BInt(-100), TRUE)) => ret.out.result = BInt(-101)
        /\ (args.num = Finite(NUM2INT_NUMERIC_NEG, -1, <<5000>>)) => ret.out.result = BInt(-1)

\* -100.5 has been floored to -101
C4_Witness ==
    /\ IsFloorCall
    /\ ret.out.ok
    /\ args.num = Finite(NUM2INT_NUMERIC_NEG, 0, <<100, 5000>>)
    /\ ret.out.result = BInt(-101)

\* C5: num2int_numeric_floor_to_int64 fails exactly when the floor of the
\* numeric lies outside [PG_INT64_MIN, PG_INT64_MAX]; it gives PG_INT64_MIN
\* for -9223372036854775808 and -9223372036854775807.5, PG_INT64_MAX for
\* 9223372036854775807.5, and fails for -9223372036854775808.5 and
\* 9223372036854775808.
C5_FloorFailsIffOutOfRange ==
    IsFloorCall =>
        /\ ret.out.ok <=> InType(ExactFloor(args.num), INT8OID)
        /\ (args.num \in {NumericOf(PG_INT64_MIN, FALSE),
                          NumericOf(BNeg(PG_INT64_MAX), TRUE)})
                => (ret.out.ok /\ ret.out.result = PG_INT64_MIN)
        /\ (args.num = NumericOf(PG_INT64_MAX, TRUE))
                => (ret.out.ok /\ ret.out.result = PG_INT64_MAX)
        /\ (args.num \in {NumericOf(PG_INT64_MIN, TRUE),
                          NumericOf(BPow2(63), FALSE)})
                => ~ret.out.ok

\* -9223372036854775808.5 has been refused
C5_Witness ==
    /\ IsFloorCall
    /\ ~ret.out.ok
    /\ args.num = Finite(NUM2INT_NUMERIC_NEG, 4, <<922, 3372, 368, 5477, 5808, 5000>>)

\* C6: num2int_numeric_to_int64 succeeds exactly on a finite, integral
\* numeric within [PG_INT64_MIN, PG_INT64_MAX], and then returns its exact
\* value (PG_INT64_MIN included); NaN, Infinity, a fraction and an integral
\* value out of range all fail.
C6_ToInt64Exact ==
    IsToInt64Call =>
        /\ ret.out.ok <=>
              /\ ~NUM2INT_NUMERIC_IS_SPECIAL(args.num)
              /\ ~ExactHasFraction(args.num)
              /\ InType(ExactFloor(args.num), INT8OID)
        /\ ret.out.ok => ret.out.result = ExactFloor(args.num)

\* -9223372036854775808 has been extracted
C6_Witness ==
    /\ IsToInt64Call
    /\ ret.out.ok
    /\ args.num = Finite(NUM2INT_NUMERIC_NEG, 4, <<922, 3372, 368, 5477, 5808>>)
    /\ ret.out.result = PG_INT64_MIN

-----------------------------------------------------------------------------
(* The three-way comparator numeric <-> integer.                           *)

Sgn(v) == BSign(v)

\* the fractional path of numeric_cmp_int64_direct
numeric_cmp_fractional(num, val, num_sign) ==
    LET weight == NUM2INT_NUMERIC_WEIGHT(num)
        integral_ndigits == weight + 1
        walk == floor_loop(num, integral_ndigits, 0, BZero)
        floor_val ==
            IF integral_ndigits <= 0
            THEN (IF num_sign > 0 THEN BZero ELSE BInt(-1))
            ELSE IF num_sign < 0 THEN I64(BSub(I64(BNeg(walk.result)), BOne))
            ELSE walk.result
    IN  IF weight > 4 THEN num_sign
        ELSE IF integral_ndigits > 0 /\ ~walk.ok THEN num_sign
        ELSE IF BLt(floor_val, val) THEN -1
        ELSE 1

\* the fractional path comparing the truncated value: no floor adjustment
numeric_cmp_int64_direct_trunc(num, val) ==
    LET num_sign == num2int_numeric_sign(num)
        val_sign == Sgn(val)
        direct   == num2int_numeric_to_int64(num)
        walk     == floor_loop(num, NUM2INT_NUMERIC_WEIGHT(num) + 1, 0, BZero)
        trunc_val == IF num_sign < 0 THEN I64(BNeg(walk.result)) ELSE walk.result
    IN  IF NUM2INT_NUMERIC_IS_SPECIAL(num)
        THEN (IF NUM2INT_NUMERIC_IS_NINF(num) THEN -1 ELSE 1)
        ELSE IF num_sign # val_sign THEN (IF num_sign < val_sign THEN -1 ELSE 1)
        ELSE IF num_sign = 0 THEN 0
        ELSE IF direct.ok
             THEN (IF BLt(direct.result, val) THEN -1
                   ELSE IF BGt(direct.result, val) THEN 1 ELSE 0)
        ELSE IF num2int_numeric_is_integral(num) THEN num_sign
        ELSE IF NUM2INT_NUMERIC_WEIGHT(num) > 4 \/ ~walk.ok THEN num_sign
        ELSE IF BLt(trunc_val, val) THEN -1
        ELSE 1

numeric_cmp_int64_direct(num, val) ==
    LET num_sign == num2int_numeric_sign(num)
        val_sign == Sgn(val)
        direct   == num2int_numeric_to_int64(num)
    IN  IF NUM2INT_NUMERIC_IS_SPECIAL(num)
        THEN (IF NUM2INT_NUMERIC_IS_NAN(num) THEN 1
              ELSE IF NUM2INT_NUMERIC_IS_PINF(num) THEN 1
              ELSE -1)
        ELSE IF num_sign # val_sign THEN (IF num_sign < val_sign THEN -1 ELSE 1)
        ELSE IF num_sign = 0 THEN 0
        ELSE IF direct.ok
             THEN (IF BLt(direct.result, val) THEN -1
                   ELSE IF BGt(direct.result, val) THEN 1 ELSE 0)
        ELSE IF num2int_numeric_is_integral(num) THEN num_sign
        ELSE numeric_cmp_fractional(num, val, num_sign)

numeric_cmp_int2_internal(num, val) == numeric_cmp_int64_direct(num, val)
numeric_cmp_int4_internal(num, val) == numeric_cmp_int64_direct(num, val)
numeric_cmp_int8_internal(num, val) == numeric_cmp_int64_direct(num, val)

\* the integers a value is compared with: the limits of the three types,
\* their neighbours, and the integers around the value itself
LimitInts ==
    {BZero, BOne, BInt(-1), BInt(10), BInt(11)}
    \cup {PG_INT16_MIN, PG_INT16_MAX, PG_INT32_MIN, PG_INT32_MAX,
          PG_INT64_MIN, PG_INT64_MAX,
          BAdd(PG_INT64_MIN, BOne), BSub(PG_INT64_MAX, BOne)}

Around(v) == {BSub(v, BOne), v, BAdd(v, BOne)}

IntsOfType(S, int_type) == {v \in S : InType(v, int_type)}

IntsNear(num) ==
    IF NUM2INT_NUMERIC_IS_SPECIAL(num) THEN LimitInts
    ELSE LimitInts \cup IntsOfType(Around(ExactFloor(num)), INT8OID)

InitNumeric ==
    /\ oid_cache = EmptyCache
    /\ build = DefaultBuild
    /\ args \in UNION {{[num |-> n, val |-> v, int_type |-> t] :
                           v \in IntsOfType(IntsNear(n), t)} : n \in Numerics, t \in IntTypes}
    /\ ret = NoCall

NumericCmpInt2 ==
    /\ args.int_type = INT2OID
    /\ ret' = [fn |-> "numeric_cmp", out |-> numeric_cmp_int2_internal(args.num, args.val)]
    /\ UNCHANGED <<oid_cache, build, args>>

NumericCmpInt4 ==
    /\ args.int_type = INT4OID
    /\ ret' = [fn |-> "numeric_cmp", out |-> numeric_cmp_int4_internal(args.num, args.val)]
    /\ UNCHANGED <<oid_cache, build, args>>

NumericCmpInt8 ==
    /\ args.int_type = INT8OID
    /\ ret' = [fn |-> "numeric_cmp", out |-> numeric_cmp_int8_internal(args.num, args.val)]
    /\ UNCHANGED <<oid_cache, build, args>>

NextNumeric == NumericCmpInt2 \/ NumericCmpInt4 \/ NumericCmpInt8

SpecNumeric == InitNumeric /\ [][NextNumeric]_vars

IsNumericCmpCall == ret.fn = "numeric_cmp"

\* C3: for every canonical finite numeric d and every int2/int4/int8 value
\* i, the three-way comparator returns the sign of (exact value of d) - i.
C3_NumericCmpExact ==
    (IsNumericCmpCall /\ ~NUM2INT_NUMERIC_IS_SPECIAL(args.num)) =>
        ret.out = ExactCmp(args.num, args.val)

\* -100.5 has been compared with -101 and found greater
C3_Witness ==
    /\ IsNumericCmpCall
    /\ args.num = Finite(NUM2INT_NUMERIC_NEG, 0, <<100, 5000>>)
    /\ args.val = BInt(-101)
    /\ ret.out = 1

-----------------------------------------------------------------------------
(* IEEE floats.  A finite float is held as its exact value scaled by       *)
(* 2^FracBits, an integer q: [kind |-> "fin", q |-> value * 2^FracBits].   *)
(* float4 has 24 significant bits and float8 has 53.                       *)

FracBits == 1

FLT_MANT_DIG == 24
DBL_MANT_DIG == 53

Precision(ftype) == IF ftype = FLOAT4OID THEN FLT_MANT_DIG ELSE DBL_MANT_DIG

Fin(q) == [kind |-> "fin", q |-> q]
FloatNaN == [kind |-> "nan", q |-> BZero]
FloatPInf == [kind |-> "pinf", q |-> BZero]
FloatNInf == [kind |-> "ninf", q |-> BZero]

isnan(f) == f.kind = "nan"
isinf(f) == f.kind \in {"pinf", "ninf"}

\* the float whose value is the integer v (exactly; see Representable)
FloatOfInt(v) == Fin(Big(v.neg, NShl(v.mag, FracBits)))

\* a value with at most p significant bits
Representable(f, p) ==
    LET bl == NBitLen(f.q.mag)
    IN  bl <= p \/ NLowZero(f.q.mag, bl - p)

\* the comparison operators of C on two finite floats of one type
FLt(a, b) == BLt(a.q, b.q)
FGt(a, b) == BGt(a.q, b.q)
FEq(a, b) == a.q = b.q

\* (float4) v and (float8) v: an integer converted to a float of precision p,
\* rounded to nearest, ties to even
IntToFloat(v, p) ==
    LET bl   == NBitLen(v.mag)
        sh   == bl - p
        t    == NShr(v.mag, sh)
        rem  == NSub(v.mag, NShl(t, sh))
        half == NShl(<<1>>, sh - 1)
        up   == NCmp(rem, half) > 0 \/ (NCmp(rem, half) = 0 /\ t[1] % 2 = 1)
    IN  IF bl <= p THEN FloatOfInt(v)
        ELSE FloatOfInt(Big(v.neg, NShl(IF up THEN NAdd(t, <<1>>) ELSE t, sh)))

\* trunc(), truncf(): toward zero
TruncF(f) == Fin(Big(f.q.neg, NShl(NShr(f.q.mag, FracBits), FracBits)))

\* floor(), floorf(): toward negative infinity
FloorF(f) ==
    IF f.q.neg /\ ~NLowZero(f.q.mag, FracBits)
    THEN Fin(Big(TRUE, NShl(NAdd(NShr(f.q.mag, FracBits), <<1>>), FracBits)))
    ELSE TruncF(f)

\* the integer value of a float truncated toward zero
TruncToInt(f) == Big(f.q.neg, NShr(f.q.mag, FracBits))

\* the exact floor of a float, as an integer
ExactFloorF(f) == TruncToInt(FloorF(f))

\* the sign of (exact value of f) - n
ExactCmpF(f, n) == BCmp(f.q, Big(n.neg, NShl(n.mag, FracBits)))

\* (intN) f: the value truncated toward zero when it fits the type; the
\* conversion is undefined otherwise, and what the build's conversion
\* instruction (32 bits wide at least) leaves is stored
CastToInt(f, bits, b) ==
    LET t     == TruncToInt(f)
        cbits == Max2(bits, 32)
        lo    == BNeg(BPow2(cbits - 1))
        hi    == BSub(BPow2(cbits - 1), BOne)
        conv  == IF BGe(t, lo) /\ BLe(t, hi) THEN t
                 ELSE IF b.cast = "indefinite" THEN lo
                 ELSE IF t.neg THEN lo ELSE hi
    IN  Wrap(conv, bits)

\* labs() and llabs() of a 64-bit argument: undefined on PG_INT64_MIN
LLAbs(v, b) ==
    IF v = PG_INT64_MIN
    THEN (IF b.abs_min = "wraps" THEN PG_INT64_MIN ELSE BPow2(63))
    ELSE BAbs(v)

FLOAT4_EXACT_MAX == BPow2(24)
FLOAT8_EXACT_MAX == BPow2(53)

\* the special-value convention that puts the sign test of an infinity first
SpecialCmp_sign_first(fval) ==
    IF fval.kind = "pinf" THEN 1 ELSE -1

SpecialCmp(fval) ==
    IF isnan(fval) THEN 1 ELSE IF fval.kind = "pinf" THEN 1 ELSE -1

PlainCmp(fval, ival_as_float) ==
    IF FLt(fval, ival_as_float) THEN -1
    ELSE IF FGt(fval, ival_as_float) THEN 1
    ELSE 0

float4_cmp_int2_internal(fval, ival, b) ==
    LET ival_as_float4 == IntToFloat(ival, FLT_MANT_DIG)
    IN  IF isnan(fval) \/ isinf(fval) THEN SpecialCmp(fval)
        ELSE IF CastToInt(ival_as_float4, 16, b) # ival
             THEN (IF FLt(fval, IntToFloat(ival, FLT_MANT_DIG)) THEN -1 ELSE 1)
        ELSE PlainCmp(fval, ival_as_float4)

\* (ival_as_float4 < ival) converts ival to float4 again before comparing
float4_cmp_int4_internal(fval, ival, b) ==
    LET ival_as_float4 == IntToFloat(ival, FLT_MANT_DIG)
    IN  IF isnan(fval) \/ isinf(fval) THEN SpecialCmp(fval)
        ELSE IF BGt(LLAbs(ival, b), FLOAT4_EXACT_MAX)
                /\ CastToInt(ival_as_float4, 32, b) # ival
             THEN IF FLt(fval, ival_as_float4) THEN -1
                  ELSE IF FGt(fval, ival_as_float4) THEN 1
                  ELSE (IF FLt(ival_as_float4, IntToFloat(ival, FLT_MANT_DIG))
                        THEN -1 ELSE 1)
        ELSE PlainCmp(fval, ival_as_float4)

float4_cmp_int8_internal(fval, ival, b) ==
    LET ival_as_float4 == IntToFloat(ival, FLT_MANT_DIG)
    IN  IF isnan(fval) \/ isinf(fval) THEN SpecialCmp(fval)
        ELSE IF BGt(LLAbs(ival, b), FLOAT4_EXACT_MAX)
                /\ CastToInt(ival_as_float4, 64, b) # ival
             THEN IF FLt(fval, ival_as_float4) THEN -1
                  ELSE IF FGt(fval, ival_as_float4) THEN 1
                  ELSE (IF FLt(ival_as_float4, IntToFloat(ival, FLT_MANT_DIG))
                        THEN -1 ELSE 1)
        ELSE PlainCmp(fval, ival_as_float4)

float8_cmp_int2_internal(fval, ival, b) ==
    IF isnan(fval) \/ isinf(fval) THEN SpecialCmp(fval)
    ELSE PlainCmp(fval, IntToFloat(ival, DBL_MANT_DIG))

float8_cmp_int4_internal(fval, ival, b) ==
    IF isnan(fval) \/ isinf(fval) THEN SpecialCmp(fval)
    ELSE PlainCmp(fval, IntToFloat(ival, DBL_MANT_DIG))

float8_cmp_int8_internal(fval, ival, b) ==
    LET ival_as_float8 == IntToFloat(ival, DBL_MANT_DIG)
        fval_rounded   == TruncF(fval)
    IN  IF isnan(fval) \/ isinf(fval) THEN SpecialCmp(fval)
        ELSE IF ~FEq(fval, fval_rounded)
             THEN (IF FLt(fval, IntToFloat(ival, DBL_MANT_DIG)) THEN -1 ELSE 1)
        ELSE IF BGt(LLAbs(ival, b), FLOAT8_EXACT_MAX)
                /\ CastToInt(ival_as_float8, 64, b) # ival
             THEN IF FLt(fval, ival_as_float8) THEN -1
                  ELSE IF FGt(fval, ival_as_float8) THEN 1
                  ELSE (IF FLt(ival_as_float8, IntToFloat(ival, DBL_MANT_DIG))
                        THEN -1 ELSE 1)
        ELSE PlainCmp(fval, ival_as_float8)

-----------------------------------------------------------------------------
(* The float comparators called on their own.                              *)

MaxDelta == 3

Deltas == (0 - MaxDelta - 1)..(MaxDelta + 1)

\* integers at the powers of two where a type or a precision ends
AnchorInts ==
    {BInt(0), BInt(10)}
    \cup {BAdd(BPow2(k), BInt(j)) : k \in {15, 24, 31, 53, 63}, j \in Deltas}
    \cup {BPow2(64), BPow2(100)}

\* the floats next to 2^k in precision p: 2^k - 2^(k-p) and 2^k + 2^(k-p+1)
FloatsNextTo(k, p) ==
    IF k < p THEN {}
    ELSE {FloatOfInt(BSub(BPow2(k), BPow2(k - p))),
          FloatOfInt(BAdd(BPow2(k), BPow2(k - p + 1)))}

FloatNegate(f) == Fin(BNeg(f.q))

PositiveFloats(p) ==
    {f \in {Fin(BAdd(FloatOfInt(a).q, BInt(h))) : a \in AnchorInts, h \in {0, 1}} :
        Representable(f, p) /\ ~f.q.neg}
    \cup FloatsNextTo(31, p) \cup FloatsNextTo(63, p)

FiniteFloats(ftype) ==
    PositiveFloats(Precision(ftype))
    \cup {FloatNegate(f) : f \in PositiveFloats(Precision(ftype))}

SpecialFloats == {FloatNaN, FloatPInf, FloatNInf}

Floats(ftype) == FiniteFloats(ftype) \cup SpecialFloats

IntsNearFloat(f) ==
    IF f.kind # "fin" THEN LimitInts
    ELSE LimitInts
         \cup {BAdd(TruncToInt(f), BInt(j)) : j \in (0 - MaxDelta)..MaxDelta}

FloatArgs(ft, t) ==
    UNION {{[ftype |-> ft, fval |-> f, int_type |-> t, ival |-> v] :
               v \in IntsOfType(IntsNearFloat(f), t)} : f \in Floats(ft)}

InitFloat ==
    /\ oid_cache = EmptyCache
    /\ build \in Builds
    /\ args \in UNION {FloatArgs(ft, t) : ft \in {FLOAT4OID, FLOAT8OID}, t \in IntTypes}
    /\ ret = NoCall

FloatCall(ftype, int_type, out) ==
    /\ args.ftype = ftype
    /\ args.int_type = int_type
    /\ ret' = [fn |-> "float_cmp", out |-> out]
    /\ UNCHANGED <<oid_cache, build, args>>

Float4CmpInt2 ==
    FloatCall(FLOAT4OID, INT2OID, float4_cmp_int2_internal(args.fval, args.ival, build))

Float4CmpInt4 ==
    FloatCall(FLOAT4OID, INT4OID, float4_cmp_int4_internal(args.fval, args.ival, build))

Float4CmpInt8 ==
    FloatCall(FLOAT4OID, INT8OID, float4_cmp_int8_internal(args.fval, args.ival, build))

Float8CmpInt2 ==
    FloatCall(FLOAT8OID, INT2OID, float8_cmp_int2_internal(args.fval, args.ival, build))

Float8CmpInt4 ==
    FloatCall(FLOAT8OID, INT4OID, float8_cmp_int4_internal(args.fval, args.ival, build))

Float8CmpInt8 ==
    FloatCall(FLOAT8OID, INT8OID, float8_cmp_int8_internal(args.fval, args.ival, build))

NextFloat ==
    \/ Float4CmpInt2 \/ Float4CmpInt4 \/ Float4CmpInt8
    \/ Float8CmpInt2 \/ Float8CmpInt4 \/ Float8CmpInt8

SpecFloat == InitFloat /\ [][NextFloat]_vars

IsFloatCmpCall(ftype, int_types) ==
    /\ ret.fn = "float_cmp"
    /\ args.ftype = ftype
    /\ args.int_type \in int_types
    /\ args.fval.kind = "fin"

\* C7: the float4 comparators report equality with an integer n (result 0)
\* if and only if the float's exact value equals n.
C7_Float4EqualIffExact ==
    IsFloatCmpCall(FLOAT4OID, {INT4OID, INT8OID}) =>
        (ret.out = 0 <=> ExactCmpF(args.fval, args.ival) = 0)

\* C8: for a finite float4 and an int4 or int8 value the comparators return
\* the sign of the exact difference f - n.
C8_Float4CmpExact ==
    IsFloatCmpCall(FLOAT4OID, {INT4OID, INT8OID}) =>
        ret.out = ExactCmpF(args.fval, args.ival)

\* C9: for a finite float8 and an int8 value float8_cmp_int8_internal returns
\* the sign of the exact difference f - n.
C9_Float8CmpExact ==
    IsFloatCmpCall(FLOAT8OID, {INT8OID}) =>
        ret.out = ExactCmpF(args.fval, args.ival)

-----------------------------------------------------------------------------
(* The operator registry: the catalog and the per-backend cache.           *)

OP_TYPE_UNKNOWN == 0
OP_TYPE_EQ == 1
OP_TYPE_NE == 2
OP_TYPE_LT == 3
OP_TYPE_GT == 4
OP_TYPE_LE == 5
OP_TYPE_GE == 6

OpTypes == {OP_TYPE_EQ, OP_TYPE_NE, OP_TYPE_LT, OP_TYPE_GT, OP_TYPE_LE, OP_TYPE_GE}

NUM2INT_OP_COUNT == 108
InvalidOid == 0
BOOLOID == 16

ValueTypes == {NUMERICOID, FLOAT4OID, FLOAT8OID}

\* the operand types of the eighteen ADD_OP lines of each operator, in order
TypePairs ==
    << <<NUMERICOID, INT2OID>>, <<NUMERICOID, INT4OID>>, <<NUMERICOID, INT8OID>>,
       <<FLOAT4OID, INT2OID>>, <<FLOAT4OID, INT4OID>>, <<FLOAT4OID, INT8OID>>,
       <<FLOAT8OID, INT2OID>>, <<FLOAT8OID, INT4OID>>, <<FLOAT8OID, INT8OID>>,
       <<INT2OID, NUMERICOID>>, <<INT2OID, FLOAT4OID>>, <<INT2OID, FLOAT8OID>>,
       <<INT4OID, NUMERICOID>>, <<INT4OID, FLOAT4OID>>, <<INT4OID, FLOAT8OID>>,
       <<INT8OID, NUMERICOID>>, <<INT8OID, FLOAT4OID>>, <<INT8OID, FLOAT8OID>> >>

\* the operators of the ADD_OP lines, in order: = <> < > <= >=
OpOrder == <<OP_TYPE_EQ, OP_TYPE_NE, OP_TYPE_LT, OP_TYPE_GT, OP_TYPE_LE, OP_TYPE_GE>>

AddOpLine(k) ==
    [op_type |-> OpOrder[((k - 1) \div Len(TypePairs)) + 1],
     left    |-> TypePairs[((k - 1) % Len(TypePairs)) + 1][1],
     right   |-> TypePairs[((k - 1) % Len(TypePairs)) + 1][2]]

\* The catalog: the extension's operators get consecutive object ids above
\* the first user object id, and each has its own implementing function.
FirstNormalObjectId == 2 ^ 14

OpernameGetOprid(op_type, left, right) ==
    LET ks == {k \in 1..NUM2INT_OP_COUNT :
                  AddOpLine(k) = [op_type |-> op_type, left |-> left, right |-> right]}
    IN  IF ks = {} THEN InvalidOid ELSE FirstNormalObjectId + (CHOOSE k \in ks : TRUE)

get_opcode(oid) == oid + NUM2INT_OP_COUNT

\* ADD_OP of line k: the entry it stores, with the looked-up operator
AddOp(k) ==
    LET line == AddOpLine(k)
        oid  == OpernameGetOprid(line.op_type, line.left, line.right)
    IN  [oid |-> oid, funcid |-> get_opcode(oid), type |-> line.op_type]

\* the entries the ADD_OP lines store: an operator that is not found is skipped
AddOps ==
    SelectSeq([k \in 1..NUM2INT_OP_COUNT |-> AddOp(k)],
              LAMBDA e : e.oid # InvalidOid)

\* populate the cache from slot 0 on; slots past the new count keep their
\* old content
init_oid_cache(cache) ==
    IF cache.count > 0 THEN cache
    ELSE [count |-> Len(AddOps),
          ops   |-> AddOps \o SubSeq(cache.ops, Len(AddOps) + 1, Len(cache.ops))]

\* the lookup that takes an operator it does not find for an equality
classify_operator_default_eq(cache, opno) ==
    LET hits == {i \in 1..cache.count : cache.ops[i].oid = opno}
    IN  IF hits = {} THEN OP_TYPE_EQ
        ELSE cache.ops[CHOOSE i \in hits : \A j \in hits : i <= j].type

classify_operator(cache, opno) ==
    LET hits == {i \in 1..cache.count : cache.ops[i].oid = opno}
    IN  IF hits = {} THEN OP_TYPE_UNKNOWN
        ELSE cache.ops[CHOOSE i \in hits : \A j \in hits : i <= j].type

\* the lookup that returns the last entry it examined when none matches
find_operator_by_funcid_last(cache, funcid) ==
    LET hits == {i \in 1..cache.count : cache.ops[i].funcid = funcid}
        first == CHOOSE i \in hits : \A j \in hits : i <= j
    IN  IF hits = {}
        THEN [opno |-> cache.ops[cache.count].oid, op_type |-> cache.ops[cache.count].type]
        ELSE [opno |-> cache.ops[first].oid, op_type |-> cache.ops[first].type]

find_operator_by_funcid(cache, funcid) ==
    LET hits == {i \in 1..cache.count : cache.ops[i].funcid = funcid}
        first == CHOOSE i \in hits : \A j \in hits : i <= j
    IN  IF hits = {} THEN [opno |-> InvalidOid, op_type |-> OP_TYPE_UNKNOWN]
        ELSE [opno |-> cache.ops[first].oid, op_type |-> cache.ops[first].type]

operator_cache_invalidation_callback(cache) == [cache EXCEPT !.count = 0]

-----------------------------------------------------------------------------
(* Constant conversion.                                                    *)

NoConversion ==
    [valid |-> FALSE, has_fraction |-> FALSE, out_of_range_high |-> FALSE,
     out_of_range_low |-> FALSE, int_val |-> BZero]

\* the range test of one integer type applied to an extracted int64
RangeChecked(result, lo, hi) ==
    IF BLt(result.int_val, lo) THEN [result EXCEPT !.out_of_range_low = TRUE]
    ELSE IF BGt(result.int_val, hi) THEN [result EXCEPT !.out_of_range_high = TRUE]
    ELSE [result EXCEPT !.valid = TRUE]

convert_numeric(num, int_type) ==
    LET floor  == num2int_numeric_floor_to_int64(num)
        result == [NoConversion EXCEPT
                      !.has_fraction = ~num2int_numeric_is_integral(num),
                      !.int_val = IF floor.ok THEN floor.result ELSE BZero]
    IN  IF NUM2INT_NUMERIC_IS_SPECIAL(num) THEN NoConversion
        ELSE IF floor.ok
             THEN IF int_type = INT2OID THEN RangeChecked(result, PG_INT16_MIN, PG_INT16_MAX)
                  ELSE IF int_type = INT4OID
                       THEN RangeChecked(result, PG_INT32_MIN, PG_INT32_MAX)
                  ELSE [result EXCEPT !.valid = TRUE]
        ELSE IF num2int_numeric_sign(num) < 0
             THEN [result EXCEPT !.out_of_range_low = TRUE]
             ELSE [result EXCEPT !.out_of_range_high = TRUE]

\* the range test of a float floor against the type's limits converted to
\* the float type, then the cast of the floor to the integer type
FloatRangeChecked(result, floor_val, lo, hi, p, bits, b) ==
    IF FLt(floor_val, IntToFloat(lo, p)) THEN [result EXCEPT !.out_of_range_low = TRUE]
    ELSE IF FGt(floor_val, IntToFloat(hi, p)) THEN [result EXCEPT !.out_of_range_high = TRUE]
    ELSE [result EXCEPT !.int_val = CastToInt(floor_val, bits, b), !.valid = TRUE]

convert_float4(fval, int_type, b) ==
    LET floor_val == FloorF(fval)
        result == [NoConversion EXCEPT !.has_fraction = ~FEq(fval, floor_val)]
    IN  IF isnan(fval) \/ isinf(fval) THEN NoConversion
        ELSE IF int_type = INT2OID
             THEN FloatRangeChecked(result, floor_val, PG_INT16_MIN, PG_INT16_MAX,
                                    FLT_MANT_DIG, 16, b)
        ELSE IF int_type = INT4OID
             THEN FloatRangeChecked(result, floor_val, PG_INT32_MIN, PG_INT32_MAX,
                                    FLT_MANT_DIG, 32, b)
        ELSE IF int_type = INT8OID
             THEN [result EXCEPT !.int_val = CastToInt(floor_val, 64, b), !.valid = TRUE]
        ELSE result

convert_float8(dval, int_type, b) ==
    LET floor_val == FloorF(dval)
        result == [NoConversion EXCEPT !.has_fraction = ~FEq(dval, floor_val)]
    IN  IF isnan(dval) \/ isinf(dval) THEN NoConversion
        ELSE IF int_type = INT2OID
             THEN FloatRangeChecked(result, floor_val, PG_INT16_MIN, PG_INT16_MAX,
                                    DBL_MANT_DIG, 16, b)
        ELSE IF int_type = INT4OID
             THEN FloatRangeChecked(result, floor_val, PG_INT32_MIN, PG_INT32_MAX,
                                    DBL_MANT_DIG, 32, b)
        ELSE IF int_type = INT8OID
             THEN FloatRangeChecked(result, floor_val, PG_INT64_MIN, PG_INT64_MAX,
                                    DBL_MANT_DIG, 64, b)
        ELSE result

\* the conversion that takes +Infinity for a value above every range
convert_const_to_int_inf_high(const_node, int_type, b) ==
    IF const_node.constisnull THEN NoConversion
    ELSE IF const_node.consttype = NUMERICOID
         THEN IF NUM2INT_NUMERIC_IS_PINF(const_node.constvalue)
              THEN [NoConversion EXCEPT !.out_of_range_high = TRUE]
              ELSE convert_numeric(const_node.constvalue, int_type)
    ELSE IF const_node.consttype = FLOAT4OID
         THEN IF const_node.constvalue = FloatPInf
              THEN [NoConversion EXCEPT !.out_of_range_high = TRUE]
              ELSE convert_float4(const_node.constvalue, int_type, b)
    ELSE IF const_node.consttype = FLOAT8OID
         THEN IF const_node.constvalue = FloatPInf
              THEN [NoConversion EXCEPT !.out_of_range_high = TRUE]
              ELSE convert_float8(const_node.constvalue, int_type, b)
    ELSE NoConversion

\* the conversion that takes a NULL constant for a zero
convert_const_to_int_null_valid(const_node, int_type, b) ==
    IF const_node.constisnull THEN [NoConversion EXCEPT !.valid = TRUE]
    ELSE IF const_node.consttype = NUMERICOID
         THEN convert_numeric(const_node.constvalue, int_type)
    ELSE IF const_node.consttype = FLOAT4OID
         THEN convert_float4(const_node.constvalue, int_type, b)
    ELSE IF const_node.consttype = FLOAT8OID
         THEN convert_float8(const_node.constvalue, int_type, b)
    ELSE NoConversion

convert_const_to_int(const_node, int_type, b) ==
    IF const_node.constisnull THEN NoConversion
    ELSE IF const_node.consttype = NUMERICOID
         THEN convert_numeric(const_node.constvalue, int_type)
    ELSE IF const_node.consttype = FLOAT4OID
         THEN convert_float4(const_node.constvalue, int_type, b)
    ELSE IF const_node.consttype = FLOAT8OID
         THEN convert_float8(const_node.constvalue, int_type, b)
    ELSE NoConversion

-----------------------------------------------------------------------------
(* Native integer operators and the rewrite.                               *)

NUM2INT_INT2EQ_OID == 94
NUM2INT_INT2LT_OID == 95
NUM2INT_INT2GT_OID == 520
NUM2INT_INT2LE_OID == 522
NUM2INT_INT2GE_OID == 524
NUM2INT_INT2NE_OID == 519
NUM2INT_INT4EQ_OID == 96
NUM2INT_INT4LT_OID == 97
NUM2INT_INT4GT_OID == 521
NUM2INT_INT4LE_OID == 523
NUM2INT_INT4GE_OID == 525
NUM2INT_INT4NE_OID == 518
NUM2INT_INT8EQ_OID == 410
NUM2INT_INT8LT_OID == 412
NUM2INT_INT8GT_OID == 413
NUM2INT_INT8LE_OID == 414
NUM2INT_INT8GE_OID == 415
NUM2INT_INT8NE_OID == 411

int_type_index(int_type) ==
    IF int_type = INT2OID THEN 0 ELSE IF int_type = INT4OID THEN 1 ELSE 2

native_op_oids ==
    << <<NUM2INT_INT2EQ_OID, NUM2INT_INT4EQ_OID, NUM2INT_INT8EQ_OID>>,
       <<NUM2INT_INT2NE_OID, NUM2INT_INT4NE_OID, NUM2INT_INT8NE_OID>>,
       <<NUM2INT_INT2LT_OID, NUM2INT_INT4LT_OID, NUM2INT_INT8LT_OID>>,
       <<NUM2INT_INT2GT_OID, NUM2INT_INT4GT_OID, NUM2INT_INT8GT_OID>>,
       <<NUM2INT_INT2LE_OID, NUM2INT_INT4LE_OID, NUM2INT_INT8LE_OID>>,
       <<NUM2INT_INT2GE_OID, NUM2INT_INT4GE_OID, NUM2INT_INT8GE_OID>> >>

get_native_op_oid(op_type, int_type) ==
    IF op_type = OP_TYPE_UNKNOWN THEN InvalidOid
    ELSE native_op_oids[op_type][int_type_index(int_type) + 1]

NullNode == [node |-> "NULL"]

makeBoolConst(value) ==
    [node |-> "Const", consttype |-> BOOLOID, constvalue |-> value, constisnull |-> FALSE]

make_int_const(int_type, int_val) ==
    IF int_type = INT2OID
    THEN [node |-> "Const", consttype |-> INT2OID, constvalue |-> Wrap(int_val, 16),
          constisnull |-> FALSE]
    ELSE IF int_type = INT4OID
    THEN [node |-> "Const", consttype |-> INT4OID, constvalue |-> Wrap(int_val, 32),
          constisnull |-> FALSE]
    ELSE [node |-> "Const", consttype |-> INT8OID, constvalue |-> int_val,
          constisnull |-> FALSE]

build_native_opexpr(native_op_oid, var_node, int_val, int_type, location, inputcollid) ==
    [node        |-> "OpExpr",
     opno        |-> native_op_oid,
     args        |-> <<var_node, make_int_const(int_type, int_val)>>,
     inputcollid |-> inputcollid,
     location    |-> location]

RangeTransform(oid, adjusted_val, is_always_true, is_always_false) ==
    [oid |-> oid, adjusted_val |-> adjusted_val,
     is_always_true |-> is_always_true, is_always_false |-> is_always_false]

\* the range transform that keeps the operator of a fractional constant
compute_range_transform_keep_op(op_type, int_type, int_val, has_fraction) ==
    LET type_max == IF int_type = INT2OID THEN PG_INT16_MAX
                    ELSE IF int_type = INT4OID THEN PG_INT32_MAX
                    ELSE PG_INT64_MAX
    IN  IF has_fraction
        THEN IF op_type = OP_TYPE_GT \/ op_type = OP_TYPE_GE
             THEN IF BGe(int_val, type_max)
                  THEN RangeTransform(InvalidOid, int_val, FALSE, TRUE)
                  ELSE RangeTransform(get_native_op_oid(op_type, int_type),
                                      I64(BAdd(int_val, BOne)), FALSE, FALSE)
             ELSE IF BGe(int_val, type_max)
                  THEN RangeTransform(InvalidOid, int_val, TRUE, FALSE)
                  ELSE RangeTransform(get_native_op_oid(op_type, int_type),
                                      int_val, FALSE, FALSE)
        ELSE RangeTransform(get_native_op_oid(op_type, int_type), int_val, FALSE, FALSE)

\* the range transform without the test against the type's maximum
compute_range_transform_no_max(op_type, int_type, int_val, has_fraction) ==
    IF has_fraction
    THEN IF op_type = OP_TYPE_GT \/ op_type = OP_TYPE_GE
         THEN RangeTransform(get_native_op_oid(OP_TYPE_GE, int_type),
                             I64(BAdd(int_val, BOne)), FALSE, FALSE)
         ELSE RangeTransform(get_native_op_oid(OP_TYPE_LE, int_type),
                             int_val, FALSE, FALSE)
    ELSE RangeTransform(get_native_op_oid(op_type, int_type), int_val, FALSE, FALSE)

compute_range_transform(op_type, int_type, int_val, has_fraction) ==
    LET type_max == IF int_type = INT2OID THEN PG_INT16_MAX
                    ELSE IF int_type = INT4OID THEN PG_INT32_MAX
                    ELSE PG_INT64_MAX
    IN  IF has_fraction
        THEN IF op_type = OP_TYPE_GT \/ op_type = OP_TYPE_GE
             THEN IF BGe(int_val, type_max)
                  THEN RangeTransform(InvalidOid, int_val, FALSE, TRUE)
                  ELSE RangeTransform(get_native_op_oid(OP_TYPE_GE, int_type),
                                      I64(BAdd(int_val, BOne)), FALSE, FALSE)
             ELSE IF BGe(int_val, type_max)
                  THEN RangeTransform(InvalidOid, int_val, TRUE, FALSE)
                  ELSE RangeTransform(get_native_op_oid(OP_TYPE_LE, int_type),
                                      int_val, FALSE, FALSE)
        ELSE RangeTransform(get_native_op_oid(op_type, int_type), int_val, FALSE, FALSE)

IsVar(n) == n.node = "Var"
IsConst(n) == n.node = "Const"

\* the fold with the two directions exchanged
OutOfRangeFold_swapped(op_type, conv) ==
    IF op_type = OP_TYPE_EQ THEN makeBoolConst(FALSE)
    ELSE IF op_type = OP_TYPE_NE THEN makeBoolConst(TRUE)
    ELSE IF op_type \in {OP_TYPE_LT, OP_TYPE_LE} THEN makeBoolConst(conv.out_of_range_low)
    ELSE IF op_type \in {OP_TYPE_GT, OP_TYPE_GE} THEN makeBoolConst(conv.out_of_range_high)
    ELSE NullNode

\* the fold of an out-of-range constant, per operator
OutOfRangeFold(op_type, conv) ==
    IF op_type = OP_TYPE_EQ THEN makeBoolConst(FALSE)
    ELSE IF op_type = OP_TYPE_NE THEN makeBoolConst(TRUE)
    ELSE IF op_type \in {OP_TYPE_LT, OP_TYPE_LE} THEN makeBoolConst(conv.out_of_range_high)
    ELSE IF op_type \in {OP_TYPE_GT, OP_TYPE_GE} THEN makeBoolConst(conv.out_of_range_low)
    ELSE NullNode

\* the rewrite that never looks at has_fraction
InRangeRewrite_no_fraction(op_type, int_type, conv, var_node, location) ==
    build_native_opexpr(get_native_op_oid(op_type, int_type), var_node,
                        conv.int_val, int_type, location, InvalidOid)

\* the rewrite of an in-range constant; the range transform is computed once
InRangeRewrite(op_type, int_type, conv, var_node, location) ==
    LET Ranged(rt) ==
            IF rt.is_always_true THEN makeBoolConst(TRUE)
            ELSE IF rt.is_always_false THEN makeBoolConst(FALSE)
            ELSE build_native_opexpr(rt.oid, var_node, rt.adjusted_val, int_type,
                                     location, InvalidOid)
    IN  IF op_type = OP_TYPE_EQ
        THEN IF conv.has_fraction THEN makeBoolConst(FALSE)
             ELSE build_native_opexpr(get_native_op_oid(OP_TYPE_EQ, int_type), var_node,
                                      conv.int_val, int_type, location, InvalidOid)
        ELSE IF op_type = OP_TYPE_NE
        THEN IF conv.has_fraction THEN makeBoolConst(TRUE)
             ELSE build_native_opexpr(get_native_op_oid(OP_TYPE_NE, int_type), var_node,
                                      conv.int_val, int_type, location, InvalidOid)
        ELSE CHOOSE ret_node \in
                 {Ranged(rt) : rt \in {compute_range_transform(op_type, int_type,
                                           conv.int_val, conv.has_fraction)}} : TRUE

\* the SupportRequestSimplify branch of num2int_support, the cache populated;
\* the constant is converted once
num2int_support_simplify(cache, func, b) ==
    LET leftop     == func.args[1]
        rightop    == func.args[2]
        const_left == IsConst(leftop) /\ IsVar(rightop)
        const_node == IF const_left THEN leftop ELSE rightop
        var_node   == IF const_left THEN rightop ELSE leftop
        found      == find_operator_by_funcid(cache, func.funcid)
        int_type   == var_node.vartype
        Converted(conv) ==
            IF conv.out_of_range_high \/ conv.out_of_range_low
            THEN OutOfRangeFold(found.op_type, conv)
            ELSE IF ~conv.valid THEN NullNode
            ELSE InRangeRewrite(found.op_type, int_type, conv, var_node, func.location)
    IN  IF Len(func.args) # 2 THEN NullNode
        ELSE IF ~(const_left \/ (IsVar(leftop) /\ IsConst(rightop))) THEN NullNode
        ELSE IF const_node.constisnull THEN NullNode
        ELSE IF found.opno = InvalidOid THEN NullNode
        ELSE CHOOSE ret_node \in
                 {Converted(conv) :
                     conv \in {convert_const_to_int(const_node, int_type, b)}} : TRUE

\* the one-element list list_make1 builds
list_make1(clause) == [node |-> "List", elements |-> <<clause>>]

is_opclause(n) == n.node = "OpExpr"

\* the SupportRequestIndexCondition branch of num2int_support, the cache
\* populated; the constant is converted once
num2int_support_index_condition(cache, node, b) ==
    LET clause     == node
        leftop     == clause.args[1]
        rightop    == clause.args[2]
        const_left == IsConst(leftop) /\ IsVar(rightop)
        const_node == IF const_left THEN leftop ELSE rightop
        var_node   == IF const_left THEN rightop ELSE leftop
        op_type    == classify_operator(cache, clause.opno)
        int_type   == var_node.vartype
        type_max   == IF int_type = INT2OID THEN PG_INT16_MAX
                      ELSE IF int_type = INT4OID THEN PG_INT32_MAX
                      ELSE PG_INT64_MAX
        Built(native_op_oid, adjusted_val) ==
            list_make1(build_native_opexpr(native_op_oid, var_node, adjusted_val,
                                           int_type, clause.location,
                                           clause.inputcollid))
        Ranged(rt) ==
            IF rt.is_always_true
            THEN Built(get_native_op_oid(OP_TYPE_LE, int_type), type_max)
            ELSE IF rt.is_always_false
            THEN Built(get_native_op_oid(OP_TYPE_GT, int_type), type_max)
            ELSE Built(rt.oid, rt.adjusted_val)
        Converted(conv) ==
            IF ~conv.valid THEN NullNode
            ELSE IF op_type = OP_TYPE_EQ /\ conv.has_fraction THEN NullNode
            ELSE IF op_type = OP_TYPE_EQ \/ op_type = OP_TYPE_NE
            THEN Built(get_native_op_oid(op_type, int_type), conv.int_val)
            ELSE CHOOSE ret_node \in
                     {Ranged(rt) : rt \in {compute_range_transform(op_type, int_type,
                                               conv.int_val, conv.has_fraction)}} : TRUE
    IN  IF ~is_opclause(node) THEN NullNode
        ELSE IF Len(clause.args) # 2 THEN NullNode
        ELSE IF ~(const_left \/ (IsVar(leftop) /\ IsConst(rightop))) THEN NullNode
        ELSE IF op_type = OP_TYPE_UNKNOWN THEN NullNode
        ELSE CHOOSE ret_node \in
                 {Converted(conv) :
                     conv \in {convert_const_to_int(const_node, int_type, b)}} : TRUE

-----------------------------------------------------------------------------
(* The support function called by the planner.                             *)

VarNode(int_type) == [node |-> "Var", vartype |-> int_type]

ConstNode(consttype, constvalue) ==
    [node |-> "Const", consttype |-> consttype, constvalue |-> constvalue,
     constisnull |-> FALSE]

\* the planner's location of the call in the query text, passed through
CallLocation == 7

\* the input collation the planner put on the node: to the support function
\* an opaque identifier
ClauseCollation == 100

\* the call `col op constant` (or `constant op col`) of a cross-type operator
CrossTypeCall(op_type, int_type, const_node, const_left) ==
    LET left  == IF const_left THEN const_node.consttype ELSE int_type
        right == IF const_left THEN int_type ELSE const_node.consttype
    IN  [funcid      |-> get_opcode(OpernameGetOprid(op_type, left, right)),
         args        |-> IF const_left THEN <<const_node, VarNode(int_type)>>
                         ELSE <<VarNode(int_type), const_node>>,
         location    |-> CallLocation,
         inputcollid |-> ClauseCollation]

\* the same predicate as the operator clause the planner hands to
\* SupportRequestIndexCondition
CrossTypeClause(op_type, int_type, const_node, const_left) ==
    LET left  == IF const_left THEN const_node.consttype ELSE int_type
        right == IF const_left THEN int_type ELSE const_node.consttype
    IN  [node        |-> "OpExpr",
         opno        |-> OpernameGetOprid(op_type, left, right),
         args        |-> IF const_left THEN <<const_node, VarNode(int_type)>>
                         ELSE <<VarNode(int_type), const_node>>,
         location    |-> CallLocation,
         inputcollid |-> ClauseCollation]

\* magnitudes at the limits of the three integer types, where a conversion
\* changes its outcome
ConversionAnchors ==
    {BZero, BInt(10), BPow2(64), BPow2(100)}
    \cup {BAdd(BPow2(k), BInt(j)) : k \in {15, 31, 63}, j \in {-2, -1, 0, 1, 2}}

\* the floats of the type whose integral part is at such a magnitude
FloatConstants(ftype) ==
    {f \in Floats(ftype) :
        \/ f.kind # "fin"
        \/ BAbs(TruncToInt(f)) \in ConversionAnchors
        \/ f \in FloatsNextTo(31, Precision(ftype)) \cup FloatsNextTo(63, Precision(ftype))}

Constants ==
    {ConstNode(NUMERICOID, n) : n \in Numerics}
    \cup {ConstNode(FLOAT4OID, f) : f \in FloatConstants(FLOAT4OID)}
    \cup {ConstNode(FLOAT8OID, f) : f \in FloatConstants(FLOAT8OID)}

SimplifyArgs ==
    {[op_type |-> op, int_type |-> t, const_left |-> cl, const_node |-> c,
      fcall |-> CrossTypeCall(op, t, c, cl),
      clause |-> CrossTypeClause(op, t, c, cl)] :
         op \in OpTypes, t \in IntTypes, cl \in BOOLEAN, c \in Constants}

\* the cast outcome matters to float constants only
BuildsFor(a) ==
    IF a.const_node.consttype = NUMERICOID THEN {DefaultBuild}
    ELSE {b \in Builds : b.abs_min = DefaultBuild.abs_min}

Init ==
    /\ oid_cache = EmptyCache
    /\ args \in SimplifyArgs
    /\ build \in BuildsFor(args)
    /\ ret = NoCall

Simplify ==
    /\ oid_cache' = init_oid_cache(oid_cache)
    /\ ret' = [fn |-> "Simplify",
               out |-> num2int_support_simplify(oid_cache', args.fcall, build)]
    /\ UNCHANGED <<build, args>>

Invalidate ==
    /\ oid_cache.count > 0
    /\ oid_cache' = operator_cache_invalidation_callback(oid_cache)
    /\ UNCHANGED <<build, args, ret>>

IndexCondition ==
    /\ oid_cache' = init_oid_cache(oid_cache)
    /\ ret' = [fn |-> "IndexCondition",
               out |-> num2int_support_index_condition(oid_cache', args.clause, build),
               lossy |-> FALSE]
    /\ UNCHANGED <<build, args>>

\* the call of the function behind the operator of a rewritten predicate
NativeCall(n) ==
    [funcid      |-> get_opcode(n.opno),
     args        |-> n.args,
     location    |-> n.location,
     inputcollid |-> n.inputcollid]

\* the planner simplifies the predicate Simplify returned
SimplifyAgain ==
    /\ ret.fn = "Simplify"
    /\ is_opclause(ret.out)
    /\ oid_cache' = init_oid_cache(oid_cache)
    /\ ret' = [fn |-> "SimplifyAgain",
               first |-> ret.out,
               out |-> num2int_support_simplify(oid_cache', NativeCall(ret.out), build)]
    /\ UNCHANGED <<build, args>>

Next == Simplify \/ IndexCondition \/ Invalidate

Spec == Init /\ [][Next]_vars

\* the planner running its simplification pass again over its own output
NextIdempotent == Simplify \/ SimplifyAgain \/ Invalidate

SpecIdempotent == Init /\ [][NextIdempotent]_vars

-----------------------------------------------------------------------------
(* What a predicate means.                                                 *)

OpHolds(op_type, s) ==
    IF op_type = OP_TYPE_EQ THEN s = 0
    ELSE IF op_type = OP_TYPE_NE THEN s # 0
    ELSE IF op_type = OP_TYPE_LT THEN s < 0
    ELSE IF op_type = OP_TYPE_GT THEN s > 0
    ELSE IF op_type = OP_TYPE_LE THEN s <= 0
    ELSE s >= 0

IsFiniteConst(c) ==
    /\ ~c.constisnull
    /\ IF c.consttype = NUMERICOID THEN ~NUM2INT_NUMERIC_IS_SPECIAL(c.constvalue)
       ELSE c.constvalue.kind = "fin"

\* the sign of (exact value of the constant) - v
ExactCmpConst(c, v) ==
    IF c.consttype = NUMERICOID THEN ExactCmp(c.constvalue, v)
    ELSE ExactCmpF(c.constvalue, v)

ExactFloorConst(c) ==
    IF c.consttype = NUMERICOID THEN ExactFloor(c.constvalue)
    ELSE ExactFloorF(c.constvalue)

ExactHasFractionConst(c) ==
    IF c.consttype = NUMERICOID THEN ExactHasFraction(c.constvalue)
    ELSE ~NLowZero(c.constvalue.q.mag, FracBits)

\* the original predicate on the column value v, evaluated exactly
OriginalHolds(a, v) ==
    IF a.const_left THEN OpHolds(a.op_type, ExactCmpConst(a.const_node, v))
    ELSE OpHolds(a.op_type, 0 - ExactCmpConst(a.const_node, v))

IsBoolConst(n) == n.node = "Const" /\ n.consttype = BOOLOID
IsNativeOpExpr(n) == n.node = "OpExpr"

\* the operator kind of a native operator of the column's type
NativeOpType(opno, int_type) ==
    LET ts == {t \in OpTypes : get_native_op_oid(t, int_type) = opno}
    IN  IF ts = {} THEN OP_TYPE_UNKNOWN ELSE CHOOSE t \in ts : TRUE

\* the value of a node the support function returned, on the column value v
ResultHolds(n, int_type, v) ==
    IF IsBoolConst(n) THEN n.constvalue
    ELSE /\ IsNativeOpExpr(n)
         /\ IsVar(n.args[1])
         /\ NativeOpType(n.opno, int_type) # OP_TYPE_UNKNOWN
         /\ OpHolds(NativeOpType(n.opno, int_type), BCmp(v, n.args[2].constvalue))

\* the column values a rewrite is tried on: the limits of the column's type,
\* the integers around the constant and those around the rewritten constant
ColumnValues(a, n) ==
    IntsOfType(LimitInts
               \cup Around(ExactFloorConst(a.const_node))
               \cup (IF IsNativeOpExpr(n) THEN Around(n.args[2].constvalue) ELSE {}),
               a.int_type)

IsSimplifyCall == ret.fn = "Simplify"

SameMeaning(a, n) ==
    \A v \in ColumnValues(a, n) : ResultHolds(n, a.int_type, v) <=> OriginalHolds(a, v)

\* C1: with the constant to the right of the column, for every operator,
\* width and finite constant, the node Simplify returns (a boolean or a
\* native predicate) has the truth value of the original comparison on every
\* column value; the only other outcome is no transformation.
C1_SimplifyPreservesMeaning ==
    (IsSimplifyCall /\ ~args.const_left /\ IsFiniteConst(args.const_node)) =>
        (ret.out = NullNode \/ SameMeaning(args, ret.out))

\* C2: with the constant to the left of the column, the node Simplify
\* returns is satisfied by exactly the column values that satisfy
\* `constant op col`.
C2_OperandPositionIrrelevant ==
    (IsSimplifyCall /\ args.const_left /\ IsFiniteConst(args.const_node)) =>
        (ret.out = NullNode \/ SameMeaning(args, ret.out))

\* The rewrite of a decimal constant to the right of the column keeps the
\* meaning of the comparison.
SimplifyNumericPreservesMeaning ==
    (IsSimplifyCall /\ ~args.const_left /\ IsFiniteConst(args.const_node)
        /\ args.const_node.consttype = NUMERICOID) =>
        (ret.out = NullNode \/ SameMeaning(args, ret.out))

\* the conversion the call made
Conv == convert_const_to_int(args.const_node, args.int_type, build)

ConstantAbove == BGt(ExactFloorConst(args.const_node), TypeMax(args.int_type))
ConstantBelow == BLt(ExactFloorConst(args.const_node), TypeMin(args.int_type))

-----------------------------------------------------------------------------
(* Folding at and beyond the limits of the column type.                    *)

\* the decimal constant 99999999999999999999
Numeric_1e20_minus_1 == Finite(NUM2INT_NUMERIC_POS, 4, <<9999, 9999, 9999, 9999, 9999>>)

\* the call Simplify received is `int8col > 99999999999999999999`
IsInt8GreaterThanHuge ==
    /\ IsSimplifyCall
    /\ args.op_type = OP_TYPE_GT
    /\ args.int_type = INT8OID
    /\ ~args.const_left
    /\ args.const_node = ConstNode(NUMERICOID, Numeric_1e20_minus_1)

\* C11 as the specification states it: `int8col > 99999999999999999999` is
\* folded by Simplify to the boolean constant true.
C11_HugeGreaterFoldsToTrue ==
    IsInt8GreaterThanHuge => ret.out = makeBoolConst(TRUE)

\* C11, amended: `int8col > 99999999999999999999` is folded by Simplify to
\* the boolean constant false, which is the value of the comparison for
\* every int8 column value.
C11_HugeGreaterFoldsToFalse ==
    IsInt8GreaterThanHuge =>
        /\ ret.out = makeBoolConst(FALSE)
        /\ \A v \in IntsOfType(LimitInts, INT8OID) : ~OriginalHolds(args, v)

\* `int8col > 99999999999999999999` has been folded
C11_Witness ==
    /\ IsInt8GreaterThanHuge
    /\ Conv.out_of_range_high
    /\ IsBoolConst(ret.out)

OrderingOps == {OP_TYPE_LT, OP_TYPE_GT, OP_TYPE_LE, OP_TYPE_GE}

\* Simplify received `col op c` with an ordering operator and a finite c
\* that has a fractional part and whose floor is the maximum of the column type
IsOrderingAtTypeMax ==
    /\ IsSimplifyCall
    /\ ~args.const_left
    /\ args.op_type \in OrderingOps
    /\ IsFiniteConst(args.const_node)
    /\ ExactHasFractionConst(args.const_node)
    /\ ExactFloorConst(args.const_node) = TypeMax(args.int_type)

\* C12: for every column width, an ordering predicate whose constant has a
\* fractional part and whose floor is the width's maximum folds to a boolean:
\* false for > and >=, true for < and <=; no predicate against floor + 1 is
\* built.
C12_FractionAtMaxFolds ==
    IsOrderingAtTypeMax =>
        /\ ~IsNativeOpExpr(ret.out)
        /\ ret.out = makeBoolConst(args.op_type \in {OP_TYPE_LT, OP_TYPE_LE})

\* `int2col > 32767.5` has been folded to false
C12_Witness ==
    /\ IsOrderingAtTypeMax
    /\ args.op_type = OP_TYPE_GT
    /\ args.int_type = INT2OID
    /\ args.const_node = ConstNode(NUMERICOID, NumericOf(PG_INT16_MAX, TRUE))
    /\ ret.out = makeBoolConst(FALSE)

-----------------------------------------------------------------------------
(* Equality and inequality.                                                *)

NativeEqOid(int_type) ==
    IF int_type = INT2OID THEN NUM2INT_INT2EQ_OID
    ELSE IF int_type = INT4OID THEN NUM2INT_INT4EQ_OID
    ELSE NUM2INT_INT8EQ_OID

NativeNeOid(int_type) ==
    IF int_type = INT2OID THEN NUM2INT_INT2NE_OID
    ELSE IF int_type = INT4OID THEN NUM2INT_INT4NE_OID
    ELSE NUM2INT_INT8NE_OID

\* the native predicate `col opno k` on the column of the call
NativePredicate(opno, int_type, k) ==
    [node        |-> "OpExpr",
     opno        |-> opno,
     args        |-> <<VarNode(int_type),
                       [node |-> "Const", consttype |-> int_type, constvalue |-> k,
                        constisnull |-> FALSE]>>,
     inputcollid |-> InvalidOid,
     location    |-> args.fcall.location]

\* Simplify received = or <> with a finite constant whose floor is within
\* the column type
IsEqNeInRange ==
    /\ IsSimplifyCall
    /\ args.op_type \in {OP_TYPE_EQ, OP_TYPE_NE}
    /\ IsFiniteConst(args.const_node)
    /\ InType(ExactFloorConst(args.const_node), args.int_type)

\* C13: for an in-range finite constant, = with a fractional constant folds
\* to false and <> with a fractional constant folds to true; with an integral
\* constant = becomes the native `=` of the column type and <> the native
\* `<>`, each against the exact integer value of the constant.
C13_EqNeHandling ==
    IsEqNeInRange =>
        ret.out =
           (IF ExactHasFractionConst(args.const_node)
            THEN makeBoolConst(args.op_type = OP_TYPE_NE)
            ELSE NativePredicate(IF args.op_type = OP_TYPE_EQ
                                 THEN NativeEqOid(args.int_type)
                                 ELSE NativeNeOid(args.int_type),
                                 args.int_type, ExactFloorConst(args.const_node)))

\* `int4col = 10` has been rewritten to the native int4 `=` against 10
C13_Witness ==
    /\ IsEqNeInRange
    /\ args.op_type = OP_TYPE_EQ
    /\ args.int_type = INT4OID
    /\ args.const_node = ConstNode(NUMERICOID, NumericOf(BInt(10), FALSE))
    /\ ret.out = NativePredicate(NUM2INT_INT4EQ_OID, INT4OID, BInt(10))

-----------------------------------------------------------------------------
(* Ordering operators.                                                     *)

NativeLtOid(int_type) ==
    IF int_type = INT2OID THEN NUM2INT_INT2LT_OID
    ELSE IF int_type = INT4OID THEN NUM2INT_INT4LT_OID
    ELSE NUM2INT_INT8LT_OID

NativeGtOid(int_type) ==
    IF int_type = INT2OID THEN NUM2INT_INT2GT_OID
    ELSE IF int_type = INT4OID THEN NUM2INT_INT4GT_OID
    ELSE NUM2INT_INT8GT_OID

NativeLeOid(int_type) ==
    IF int_type = INT2OID THEN NUM2INT_INT2LE_OID
    ELSE IF int_type = INT4OID THEN NUM2INT_INT4LE_OID
    ELSE NUM2INT_INT8LE_OID

NativeGeOid(int_type) ==
    IF int_type = INT2OID THEN NUM2INT_INT2GE_OID
    ELSE IF int_type = INT4OID THEN NUM2INT_INT4GE_OID
    ELSE NUM2INT_INT8GE_OID

NativeOrderingOid(op_type, int_type) ==
    IF op_type = OP_TYPE_LT THEN NativeLtOid(int_type)
    ELSE IF op_type = OP_TYPE_GT THEN NativeGtOid(int_type)
    ELSE IF op_type = OP_TYPE_LE THEN NativeLeOid(int_type)
    ELSE NativeGeOid(int_type)

\* Simplify received an ordering operator with a finite constant whose floor
\* is within the column type and, when the constant has a fraction, below
\* the type's maximum
IsOrderingInRange ==
    /\ IsSimplifyCall
    /\ args.op_type \in OrderingOps
    /\ IsFiniteConst(args.const_node)
    /\ InType(ExactFloorConst(args.const_node), args.int_type)
    /\ ExactHasFractionConst(args.const_node) =>
           BLt(ExactFloorConst(args.const_node), TypeMax(args.int_type))

\* C14: for an in-range finite constant and an ordering operator the rewrite
\* is, with no fractional part, the same operator against the floor; with a
\* fractional part and the floor below the type's maximum, > and >= become
\* the native >= against floor + 1 and < and <= the native <= against the
\* floor (`col > 10.5` becomes `col >= 11`, `col < 10.5` becomes `col <= 10`).
C14_RangeTransform ==
    IsOrderingInRange =>
        ret.out =
           (IF ~ExactHasFractionConst(args.const_node)
            THEN NativePredicate(NativeOrderingOid(args.op_type, args.int_type),
                                 args.int_type, ExactFloorConst(args.const_node))
            ELSE IF args.op_type \in {OP_TYPE_GT, OP_TYPE_GE}
            THEN NativePredicate(NativeGeOid(args.int_type), args.int_type,
                                 BAdd(ExactFloorConst(args.const_node), BOne))
            ELSE NativePredicate(NativeLeOid(args.int_type), args.int_type,
                                 ExactFloorConst(args.const_node)))

\* `int4col > 10.5` has been rewritten to `int4col >= 11`
C14_Witness ==
    /\ IsOrderingInRange
    /\ ~args.const_left
    /\ args.op_type = OP_TYPE_GT
    /\ args.int_type = INT4OID
    /\ args.const_node = ConstNode(NUMERICOID, NumericOf(BInt(10), TRUE))
    /\ ret.out = NativePredicate(NUM2INT_INT4GE_OID, INT4OID, BInt(11))

-----------------------------------------------------------------------------
(* Constants and predicates Simplify declines.                             *)

IsSpecialConst(c) ==
    /\ ~c.constisnull
    /\ IF c.consttype = NUMERICOID THEN NUM2INT_NUMERIC_IS_SPECIAL(c.constvalue)
       ELSE isnan(c.constvalue) \/ isinf(c.constvalue)

\* C15: for a NaN, +Infinity or -Infinity constant (numeric, float4 or
\* float8) Simplify returns no transformation, for every operator and every
\* column type: the conversion sets neither out-of-range flag nor valid, and
\* neither a boolean nor a native predicate is returned.
C15_SpecialConstantsDecline ==
    (IsSimplifyCall /\ IsSpecialConst(args.const_node)) =>
        /\ ~Conv.out_of_range_high
        /\ ~Conv.out_of_range_low
        /\ ~Conv.valid
        /\ ret.out = NullNode

\* `int4col < +Infinity` with a float8 constant has been declined
C15_Witness ==
    /\ IsSimplifyCall
    /\ args.op_type = OP_TYPE_LT
    /\ args.int_type = INT4OID
    /\ args.const_node = ConstNode(FLOAT8OID, FloatPInf)
    /\ ret.out = NullNode

-----------------------------------------------------------------------------
(* Malformed predicates.                                                   *)

Shapes == {"one_arg", "three_args", "var_var", "const_const", "unknown_op"}

\* the operands of a predicate of the given shape
ShapedOperands(shape, int_type, const_node, const_left) ==
    IF shape = "one_arg" THEN <<VarNode(int_type)>>
    ELSE IF shape = "three_args"
    THEN IF const_left THEN <<const_node, VarNode(int_type), const_node>>
         ELSE <<VarNode(int_type), const_node, const_node>>
    ELSE IF shape = "var_var" THEN <<VarNode(int_type), VarNode(int_type)>>
    ELSE IF shape = "const_const" THEN <<const_node, const_node>>
    ELSE IF const_left THEN <<const_node, VarNode(int_type)>>
    ELSE <<VarNode(int_type), const_node>>

\* constants that a well-formed predicate would fold or rewrite
MalformedConstants ==
    {ConstNode(NUMERICOID, NumericOf(BInt(10), FALSE)),
     ConstNode(NUMERICOID, NumericOf(BInt(10), TRUE)),
     ConstNode(NUMERICOID, Numeric_1e20_minus_1),
     ConstNode(FLOAT8OID, FloatOfInt(BInt(10)))}

\* a predicate of the shape: a cross-type operator with the wrong operands,
\* or the right operands under the native operator of the column type
MalformedArgs ==
    {[shape |-> sh, op_type |-> op, int_type |-> t, const_left |-> cl, const_node |-> c,
      fcall  |-> [CrossTypeCall(op, t, c, cl) EXCEPT
                     !.args = ShapedOperands(sh, t, c, cl),
                     !.funcid = IF sh = "unknown_op"
                                THEN get_opcode(get_native_op_oid(op, t)) ELSE @],
      clause |-> [CrossTypeClause(op, t, c, cl) EXCEPT
                     !.args = ShapedOperands(sh, t, c, cl),
                     !.opno = IF sh = "unknown_op"
                              THEN get_native_op_oid(op, t) ELSE @]] :
         sh \in Shapes, op \in OpTypes, t \in IntTypes, cl \in BOOLEAN,
         c \in MalformedConstants}

InitMalformed ==
    /\ oid_cache = EmptyCache
    /\ args \in MalformedArgs
    /\ build = DefaultBuild
    /\ ret = NoCall

NextMalformed == Simplify \/ IndexCondition \/ Invalidate

SpecMalformed == InitMalformed /\ [][NextMalformed]_vars

IsSupportCall == ret.fn \in {"Simplify", "IndexCondition"}

\* C16: on a malformed predicate (an operand count other than 2, operands
\* that are not one column reference and one constant, or an operator or
\* function the registry cache does not classify) both the Simplify and the
\* IndexCondition branch return no transformation.
C16_MalformedDeclined ==
    IsSupportCall => ret.out = NullNode

\* the IndexCondition branch has declined a predicate with three operands
C16_Witness ==
    /\ ret.fn = "IndexCondition"
    /\ args.shape = "three_args"
    /\ ret.out = NullNode

-----------------------------------------------------------------------------
(* Simplifying a rewritten predicate.                                      *)

IsSimplifyAgainCall == ret.fn = "SimplifyAgain"

\* what the planner holds after a Simplify call on the predicate p
Simplified(p, out) == IF out = NullNode THEN p ELSE out

\* C17: Simplify applied to a native integer comparison that a previous
\* Simplify returned gives no transformation, the registry cache holding
\* neither the native operator nor its function; simplifying twice gives the
\* predicate that simplifying once gave.
C17_RewriteIdempotent ==
    IsSimplifyAgainCall =>
        /\ ret.out = NullNode
        /\ find_operator_by_funcid(init_oid_cache(oid_cache),
                                   NativeCall(ret.first).funcid).opno = InvalidOid
        /\ classify_operator(init_oid_cache(oid_cache), ret.first.opno) = OP_TYPE_UNKNOWN
        /\ Simplified(ret.first, ret.out) = ret.first

\* `int4col >= 11`, the rewrite of `int4col > 10.5`, has been simplified again
C17_Witness ==
    /\ IsSimplifyAgainCall
    /\ ret.first = NativePredicate(NUM2INT_INT4GE_OID, INT4OID, BInt(11))
    /\ ret.out = NullNode

-----------------------------------------------------------------------------
(* The conversion of a constant, called on its own.                        *)

\* a NULL constant: its datum is never read
NullConstants == {[c EXCEPT !.constisnull = TRUE] : c \in Constants}

ConvertConstants ==
    {ConstNode(NUMERICOID, n) : n \in Numerics}
    \cup {ConstNode(FLOAT4OID, f) : f \in Floats(FLOAT4OID)}
    \cup {ConstNode(FLOAT8OID, f) : f \in Floats(FLOAT8OID)}
    \cup NullConstants

InitConvert ==
    /\ oid_cache = EmptyCache
    /\ args \in {[const_node |-> c, int_type |-> t] : c \in ConvertConstants, t \in IntTypes}
    /\ build \in BuildsFor(args)
    /\ ret = NoCall

ConvertConstToInt ==
    /\ ret' = [fn |-> "convert_const_to_int",
               out |-> convert_const_to_int(args.const_node, args.int_type, build)]
    /\ UNCHANGED <<oid_cache, build, args>>

NextConvert == ConvertConstToInt

SpecConvert == InitConvert /\ [][NextConvert]_vars

IsConvertCall == ret.fn = "convert_const_to_int"

\* how many of valid, out_of_range_low, out_of_range_high a result has set
FlagsSet(result) ==
    Cardinality({f \in {"valid", "out_of_range_low", "out_of_range_high"} : result[f]})

\* C18: convert_const_to_int sets exactly one of valid, out_of_range_low and
\* out_of_range_high for a constant that is neither NULL nor NaN nor an
\* infinity, whatever the integer type, and none of them for a NULL, NaN or
\* infinite constant.
C18_ExactlyOneFlag ==
    IsConvertCall =>
        FlagsSet(ret.out) = IF IsFiniteConst(args.const_node) THEN 1 ELSE 0

\* a NULL float8 constant has been converted for an int2 column
C18_Witness ==
    /\ IsConvertCall
    /\ args.const_node.constisnull
    /\ args.const_node.consttype = FLOAT8OID
    /\ args.int_type = INT2OID
    /\ FlagsSet(ret.out) = 0

\* C19: for a finite constant of any of the three types and any integer type,
\* convert_const_to_int reports valid exactly when the floor of the constant
\* lies within the integer type's range, int_val then being that floor,
\* out_of_range_high exactly when the floor is above the range and
\* out_of_range_low exactly when it is below.
C19_RangeBoundsOnFloor ==
    (IsConvertCall /\ IsFiniteConst(args.const_node)) =>
        LET floor == ExactFloorConst(args.const_node)
            lo    == TypeMin(args.int_type)
            hi    == TypeMax(args.int_type)
        IN  /\ ret.out.valid = (BLe(lo, floor) /\ BLe(floor, hi))
            /\ ret.out.valid => ret.out.int_val = floor
            /\ ret.out.out_of_range_high = BGt(floor, hi)
            /\ ret.out.out_of_range_low = BLt(floor, lo)

-----------------------------------------------------------------------------
(* The nine three-way comparators together.                                *)

HasNumericSource == "num" \in DOMAIN args

InitCompare ==
    /\ oid_cache = EmptyCache
    /\ args \in UNION {{[num |-> n, val |-> v, int_type |-> t] :
                           v \in IntsOfType(IntsNear(n), t)} : n \in Numerics, t \in IntTypes}
                \cup UNION {FloatArgs(ft, t) : ft \in {FLOAT4OID, FLOAT8OID}, t \in IntTypes}
    /\ build \in IF HasNumericSource THEN {DefaultBuild} ELSE Builds
    /\ ret = NoCall

NextCompare ==
    \/ HasNumericSource /\ NextNumeric
    \/ ~HasNumericSource /\ NextFloat

SpecCompare == InitCompare /\ [][NextCompare]_vars

IsCmpCall == ret.fn \in {"numeric_cmp", "float_cmp"}

\* "nan", "pinf", "ninf" for a special source value, "fin" for any other
SourceKind ==
    IF HasNumericSource
    THEN (IF NUM2INT_NUMERIC_IS_NAN(args.num) THEN "nan"
          ELSE IF NUM2INT_NUMERIC_IS_PINF(args.num) THEN "pinf"
          ELSE IF NUM2INT_NUMERIC_IS_NINF(args.num) THEN "ninf"
          ELSE "fin")
    ELSE args.fval.kind

\* C20: each of the nine three-way comparators (numeric, float4, float8
\* against int2, int4, int8) returns +1 for a NaN or +Infinity source and -1
\* for a -Infinity source, whatever the integer; a special value never
\* compares equal to an integer.
C20_SpecialValuesOrder ==
    IsCmpCall =>
        /\ SourceKind \in {"nan", "pinf"} => ret.out = 1
        /\ SourceKind = "ninf" => ret.out = -1
        /\ SourceKind # "fin" => ret.out # 0

\* the float4 -Infinity has been compared with the least int8
C20_Witness ==
    /\ IsCmpCall
    /\ ~HasNumericSource
    /\ args.ftype = FLOAT4OID
    /\ args.fval = FloatNInf
    /\ args.int_type = INT8OID
    /\ args.ival = PG_INT64_MIN
    /\ ret.out = -1

-----------------------------------------------------------------------------
(* Hashing an integer as the numeric equal to it.                          *)

\* the value of an unsigned 64-bit expression
U64(a) == IF a.neg THEN BAdd(a, BPow2(64)) ELSE a

\* hash_any and hash_any_extended are kept as the key (and seed) they are
\* given: two hashes are the same when they are taken of the same bytes
hash_any(key) == [fn |-> "hash_any", key |-> key]
hash_any_extended(key, seed) == [fn |-> "hash_any_extended", key |-> key, seed |-> seed]

\* digit_hash ^ weight
HashXorWeight(digit_hash, weight) == [digit_hash |-> digit_hash, weight |-> weight]

\* (uint32) -1 and seed - 1
ZeroHash == [value |-> BSub(BPow2(32), BOne)]
ZeroHashExtended(seed) == [value |-> U64(BSub(seed, BOne))]

\* the magnitude taken without the PG_INT64_MIN case
hash_magnitude_negate(val) ==
    IF BLt(val, BZero)
    THEN [uval |-> U64(I64(BNeg(val))), overflow |-> ~InType(BNeg(val), INT8OID)]
    ELSE [uval |-> val, overflow |-> FALSE]

\* uval, and whether the negation that gives it overflowed int64
hash_magnitude(val) ==
    IF BLt(val, BZero)
    THEN IF val = PG_INT64_MIN
         THEN [uval |-> BAdd(U64(PG_INT64_MAX), BOne), overflow |-> FALSE]
         ELSE [uval |-> U64(I64(BNeg(val))), overflow |-> ~InType(BNeg(val), INT8OID)]
    ELSE [uval |-> val, overflow |-> FALSE]

\* the number of elements of the digits array
HashDigitsSize == 5

\* the weight taken as the number of digits
hash_weight_ndigits(frame) == frame.ndigits

\* weight = ndigits - 1, taken before the trailing zeros are stripped
hash_weight(frame) == frame.ndigits - 1

Reversed(ds) == [i \in 1..Len(ds) |-> ds[Len(ds) + 1 - i]]

NoHash == [fn |-> "none"]

HashInts ==
    LimitInts
    \cup {BInt(j) : j \in {-10000, -9999, -10, 9999, 10000, 10001, 100000000, 100010000}}
    \cup {Big(neg, NMulPow(<<k>>, e)) : neg \in BOOLEAN, k \in {1, 10, 9999}, e \in 2..4}
    \cup {Big(neg, NAdd(NMulPow(<<1>>, e), <<1>>)) : neg \in BOOLEAN, e \in 3..4}

HashSeeds == {BZero, BOne, BSub(BPow2(64), BOne)}

InitHash ==
    /\ oid_cache = EmptyCache
    /\ build = DefaultBuild
    /\ args \in UNION {{[val |-> v, int_type |-> t, seeded |-> sd, seed |-> s] :
                            v \in IntsOfType(HashInts, t), sd \in BOOLEAN, s \in HashSeeds} :
                         t \in IntTypes}
    /\ ret = NoCall

\* entry of hash_int64_as_numeric_internal / _extended_internal, up to the loop
HashEnter ==
    /\ ret = NoCall
    /\ ret' = IF args.val = BZero
              THEN [fn |-> "hash", pc |-> "done", uval |-> BZero, digits |-> <<>>,
                    ndigits |-> 0, weight |-> 0, overflow |-> FALSE, overrun |-> FALSE,
                    out |-> IF args.seeded THEN ZeroHashExtended(args.seed) ELSE ZeroHash]
              ELSE [fn |-> "hash", pc |-> "extract", uval |-> hash_magnitude(args.val).uval,
                    digits |-> <<>>, ndigits |-> 0, weight |-> 0,
                    overflow |-> hash_magnitude(args.val).overflow, overrun |-> FALSE,
                    out |-> NoHash]
    /\ UNCHANGED <<oid_cache, build, args>>

\* one turn of `while (uval > 0)`
HashExtract ==
    /\ ret.fn = "hash" /\ ret.pc = "extract"
    /\ ret.uval # BZero
    /\ ret' = [ret EXCEPT !.digits = Append(@, NMod(ret.uval.mag, NUM2INT_NBASE)),
                          !.overrun = @ \/ ret.ndigits >= HashDigitsSize,
                          !.ndigits = @ + 1,
                          !.uval = BDivTrunc(ret.uval, NUM2INT_NBASE)]
    /\ UNCHANGED <<oid_cache, build, args>>

\* the loop has ended: reverse the digits and take the weight
HashReverse ==
    /\ ret.fn = "hash" /\ ret.pc = "extract"
    /\ ret.uval = BZero
    /\ ret' = [ret EXCEPT !.digits = Reversed(@),
                          !.weight = hash_weight(ret),
                          !.pc = "strip"]
    /\ UNCHANGED <<oid_cache, build, args>>

\* one turn of `while (ndigits > 0 && digits[ndigits - 1] == 0)`
HashStrip ==
    /\ ret.fn = "hash" /\ ret.pc = "strip"
    /\ ret.ndigits > 0 /\ ret.digits[ret.ndigits] = 0
    /\ ret' = [ret EXCEPT !.ndigits = @ - 1]
    /\ UNCHANGED <<oid_cache, build, args>>

\* hash the digits left and mix the weight in
HashFinish ==
    /\ ret.fn = "hash" /\ ret.pc = "strip"
    /\ ~(ret.ndigits > 0 /\ ret.digits[ret.ndigits] = 0)
    /\ ret' = [ret EXCEPT
                  !.pc = "done",
                  !.out = LET key == SubSeq(ret.digits, 1, ret.ndigits)
                          IN  HashXorWeight(IF args.seeded
                                            THEN hash_any_extended(key, args.seed)
                                            ELSE hash_any(key),
                                            ret.weight)]
    /\ UNCHANGED <<oid_cache, build, args>>

NextHash == HashEnter \/ HashExtract \/ HashReverse \/ HashStrip \/ HashFinish

SpecHash == InitHash /\ [][NextHash]_vars

\* hash_numeric and hash_numeric_extended of a stored numeric: strip leading
\* and trailing zero digits, hash what is left, mix in the adjusted weight
RECURSIVE LeadingZeros(_)
LeadingZeros(ds) ==
    IF ds # <<>> /\ ds[1] = 0 THEN 1 + LeadingZeros(Tail(ds)) ELSE 0

NumericHashKey(num) ==
    StripTrailingZeros(SubSeq(num.digits, LeadingZeros(num.digits) + 1, Len(num.digits)))

hash_numeric(num) ==
    IF NumericHashKey(num) = <<>> THEN ZeroHash
    ELSE HashXorWeight(hash_any(NumericHashKey(num)),
                       num.weight - LeadingZeros(num.digits))

hash_numeric_extended(num, seed) ==
    IF NumericHashKey(num) = <<>> THEN ZeroHashExtended(seed)
    ELSE HashXorWeight(hash_any_extended(NumericHashKey(num), seed),
                       num.weight - LeadingZeros(num.digits))

IsHashDone == ret.fn = "hash" /\ ret.pc = "done"

\* C21: for an integer n of any of the three types, the digits and the weight
\* that hash_int64_as_numeric_internal and its seeded variant hash are those
\* of the stored numeric equal to n (base-10000 digits of |n|, most
\* significant first, trailing zeros removed; weight = number of digits of
\* |n| minus one), so the result is the hash of that numeric; n = 0 gives
\* (uint32) -1, or seed - 1 in the seeded variant.
C21_HashIsHashOfNumeric ==
    IsHashDone =>
        LET all == Base10000(BAbs(args.val).mag)
        IN  /\ args.val # BZero =>
                  /\ SubSeq(ret.digits, 1, ret.ndigits) = StripTrailingZeros(all)
                  /\ ret.weight = Len(all) - 1
            /\ args.val = BZero =>
                  ret.out = IF args.seeded THEN [value |-> U64(BSub(args.seed, BOne))]
                            ELSE [value |-> BSub(BPow2(32), BOne)]
            /\ ret.out = IF args.seeded
                         THEN hash_numeric_extended(NumericOf(args.val, FALSE), args.seed)
                         ELSE hash_numeric(NumericOf(args.val, FALSE))

\* the int4 10000 has been hashed: one digit left of two, weight 1
C21_Witness ==
    /\ IsHashDone
    /\ args.val = BInt(10000)
    /\ args.int_type = INT4OID
    /\ ~args.seeded
    /\ ret.out = HashXorWeight(hash_any(<<1>>), 1)

IsHashCall == ret.fn = "hash"

\* C30: for every integer input, PG_INT64_MIN and PG_INT64_MAX included, the
\* digit loop of hash_int64_as_numeric_internal and of its seeded variant
\* ends (what is left of uval is below 10000^(5 - ndigits), so at most
\* 5 - ndigits turns remain) having written at most 5 digits, none outside
\* the 5-element array; the magnitude is taken without signed overflow; and
\* a non-zero input keeps at least one digit after the trailing zeros are
\* stripped.
C30_HashDigitLoopSafe ==
    IsHashCall =>
        /\ ret.ndigits <= HashDigitsSize
        /\ Len(ret.digits) <= HashDigitsSize
        /\ ~ret.overrun
        /\ ~ret.overflow
        /\ ret.pc = "extract" =>
               BLt(ret.uval, Big(FALSE, NMulPow(<<1>>, HashDigitsSize - ret.ndigits)))
        /\ (ret.pc = "done" /\ args.val # BZero) => ret.ndigits >= 1

\* PG_INT64_MIN has been hashed from all five elements of the array
C30_Witness ==
    /\ IsHashCall
    /\ ret.pc = "done"
    /\ args.val = PG_INT64_MIN
    /\ ret.ndigits = HashDigitsSize
    /\ SubSeq(ret.digits, 1, ret.ndigits) = <<922, 3372, 368, 5477, 5808>>

-----------------------------------------------------------------------------
(* The population of the cache, one catalog call at a time.  The catalog    *)
(* calls of an ADD_OP line (OpernameGetOprid, get_opcode) accept pending    *)
(* invalidation messages, which run operator_cache_invalidation_callback.  *)

\* the ADD_OP lines during whose catalog calls an invalidation may arrive
InvalidationLines == {1, 2, 19, 107, 108}

\* invalidations delivered in one behaviour
MaxInvalidations == 2

\* an element of the static array that was never written
ZeroEntry == [oid |-> InvalidOid, funcid |-> InvalidOid, type |-> OP_TYPE_UNKNOWN]

\* cache->ops[i].field = value, i counted from 0
StoreField(cache, i, field, value) ==
    [cache EXCEPT !.ops = IF i + 1 <= Len(@)
                          THEN [@ EXCEPT ![i + 1][field] = value]
                          ELSE Append(@, [ZeroEntry EXCEPT ![field] = value])]

Delivered(cache, inval) ==
    IF inval THEN operator_cache_invalidation_callback(cache) ELSE cache

MayInvalidate(inval) ==
    inval => ret.line \in InvalidationLines /\ ret.invals < MaxInvalidations

Populating == ret.fn = "init_oid_cache" /\ ret.pc \in {"lookup", "opcode"}

\* `cache->ops[cache->count].funcid = get_opcode(_oid)`: the element is
\* located before the call on some builds and after it on others
InitPopulate ==
    /\ oid_cache = EmptyCache
    /\ build = DefaultBuild
    /\ args \in [address_first : BOOLEAN]
    /\ ret = [fn |-> "none", invals |-> 0]

\* classify_operator / find_operator_by_funcid call init_oid_cache, which
\* returns at once when count > 0
UseCache ==
    /\ ~Populating
    /\ ret' = [fn |-> "init_oid_cache",
               pc |-> IF oid_cache.count > 0 THEN "done" ELSE "lookup",
               line |-> 1, oid |-> InvalidOid, overrun |-> FALSE,
               entry |-> IF oid_cache.count > 0 THEN oid_cache ELSE EmptyCache,
               invals |-> ret.invals]
    /\ UNCHANGED <<oid_cache, build, args>>

\* ADD_OP, first half: look the operator up and store its oid
AddOpLookup ==
    /\ ret.fn = "init_oid_cache" /\ ret.pc = "lookup"
    /\ \E inval \in BOOLEAN :
          /\ MayInvalidate(inval)
          /\ LET l      == AddOpLine(ret.line)
                 oid    == OpernameGetOprid(l.op_type, l.left, l.right)
                 cache1 == Delivered(oid_cache, inval)
             IN  IF oid # InvalidOid
                 THEN /\ oid_cache' = StoreField(cache1, cache1.count, "oid", oid)
                      /\ ret' = [ret EXCEPT
                                    !.pc = "opcode", !.oid = oid,
                                    !.overrun = @ \/ cache1.count >= NUM2INT_OP_COUNT,
                                    !.invals = IF inval THEN @ + 1 ELSE @]
                 ELSE /\ oid_cache' = cache1
                      /\ ret' = [ret EXCEPT
                                    !.pc = IF ret.line = NUM2INT_OP_COUNT
                                           THEN "done" ELSE "lookup",
                                    !.line = @ + 1,
                                    !.invals = IF inval THEN @ + 1 ELSE @]
    /\ UNCHANGED <<build, args>>

\* ADD_OP, second half: store the function and the kind, count the entry
AddOpOpcode ==
    /\ ret.fn = "init_oid_cache" /\ ret.pc = "opcode"
    /\ \E inval \in BOOLEAN :
          /\ MayInvalidate(inval)
          /\ LET cache1 == Delivered(oid_cache, inval)
                 at     == IF args.address_first THEN oid_cache.count ELSE cache1.count
                 cache2 == StoreField(cache1, at, "funcid", get_opcode(ret.oid))
                 cache3 == StoreField(cache2, cache1.count, "type",
                                      AddOpLine(ret.line).op_type)
             IN  /\ oid_cache' = [cache3 EXCEPT !.count = @ + 1]
                 /\ ret' = [ret EXCEPT
                               !.pc = IF ret.line = NUM2INT_OP_COUNT
                                      THEN "done" ELSE "lookup",
                               !.line = @ + 1,
                               !.invals = IF inval THEN @ + 1 ELSE @]
    /\ UNCHANGED <<build, args>>

\* an invalidation delivered while no population is in progress
InvalidateIdle ==
    /\ ~Populating
    /\ ret.invals < MaxInvalidations
    /\ oid_cache' = operator_cache_invalidation_callback(oid_cache)
    /\ ret' = [fn |-> "operator_cache_invalidation_callback", before |-> oid_cache,
               invals |-> ret.invals + 1]
    /\ UNCHANGED <<build, args>>

NextPopulate == UseCache \/ AddOpLookup \/ AddOpOpcode \/ InvalidateIdle

SpecPopulate == InitPopulate /\ [][NextPopulate]_vars

\* init_oid_cache has returned: the caller scans the cache next
CacheReady == ret.fn = "init_oid_cache" /\ ret.pc = "done"

\* the kind of the operator with this identifier in the catalog
KindOf(oid) ==
    IF \E k \in 1..NUM2INT_OP_COUNT : AddOp(k).oid = oid
    THEN AddOpLine(oid - FirstNormalObjectId).op_type
    ELSE OP_TYPE_UNKNOWN

\* C22: the invalidation callback only sets count to 0; when init_oid_cache
\* has returned the cache is populated (count > 0), unchanged if it was
\* populated on entry, and classifies every operator of the catalog to its
\* kind, as it did before any invalidation.
C22_CacheLifeCycle ==
    /\ ret.fn = "operator_cache_invalidation_callback" =>
           oid_cache = [ret.before EXCEPT !.count = 0]
    /\ CacheReady =>
           /\ oid_cache.count > 0
           /\ ret.entry.count > 0 => oid_cache = ret.entry
           /\ \A k \in 1..NUM2INT_OP_COUNT :
                  classify_operator(oid_cache, AddOp(k).oid) = AddOpLine(k).op_type

\* C26: whenever a lookup scans the cache with count > 0, which it does once
\* init_oid_cache has returned, every cross-type operator of the catalog has
\* an entry below count, also when an invalidation arrived during the
\* population.
C26_NoPartialCache ==
    (CacheReady /\ oid_cache.count > 0) =>
        \A k \in 1..NUM2INT_OP_COUNT :
            \E i \in 1..oid_cache.count : oid_cache.ops[i].oid = AddOp(k).oid

\* C27: when no population is in progress, count is within 0..108, no entry
\* was written at an index >= 108, and every entry below count holds a valid
\* operator identifier with that operator's function and kind.
C27_CacheWellFormed ==
    ~Populating =>
        /\ oid_cache.count \in 0..NUM2INT_OP_COUNT
        /\ Len(oid_cache.ops) <= NUM2INT_OP_COUNT
        /\ ret.fn = "init_oid_cache" => ~ret.overrun
        /\ \A i \in 1..oid_cache.count :
               /\ oid_cache.ops[i].oid # InvalidOid
               /\ oid_cache.ops[i].funcid = get_opcode(oid_cache.ops[i].oid)
               /\ oid_cache.ops[i].type = KindOf(oid_cache.ops[i].oid)

-----------------------------------------------------------------------------
(* The digit walks, with the exact value of every int64 expression they    *)
(* evaluate.                                                               *)

\* the expressions of the loop of num2int_numeric_to_int64 from index i on,
\* and the final negation
RECURSIVE to_int64_values(_, _, _)
to_int64_values(num, i, val) ==
    LET weight  == NUM2INT_NUMERIC_WEIGHT(num)
        sign    == NUM2INT_NUMERIC_SIGN(num)
        digit   == PaddedDigit(num, i)
        product == BMul(val, NUM2INT_NBASE)
        newval  == I64(product)
        room    == BSub(PG_INT64_MAX, newval)
        sum     == BAdd(newval, digit)
    IN  IF i > weight
        THEN (IF sign = NUM2INT_NUMERIC_POS THEN {} ELSE {BNeg(val)})
        ELSE IF BGt(val, BDivTrunc(PG_INT64_MAX, NUM2INT_NBASE)) THEN {}
        ELSE {product, room}
             \cup (IF BGt(digit, I64(room))
                   THEN IF sign = NUM2INT_NUMERIC_POS THEN {}
                        ELSE {BSub(PG_INT64_MAX, digit),
                              BAdd(I64(BSub(PG_INT64_MAX, digit)), BOne)}
                   ELSE {sum} \cup to_int64_values(num, i + 1, I64(sum)))

num2int_numeric_to_int64_values(num) ==
    IF NUM2INT_NUMERIC_IS_SPECIAL(num) THEN {}
    ELSE IF NUM2INT_NUMERIC_NDIGITS(num) = 0 THEN {}
    ELSE IF NUM2INT_NUMERIC_NDIGITS(num) > NUM2INT_NUMERIC_WEIGHT(num) + 1 THEN {}
    ELSE IF NUM2INT_NUMERIC_WEIGHT(num) > 4 THEN {}
    ELSE to_int64_values(num, 0, BZero)

\* the loop over the integral digits without its multiplication check
RECURSIVE floor_loop_values_unchecked(_, _, _, _)
floor_loop_values_unchecked(num, integral_ndigits, i, floor_val) ==
    LET digit   == PaddedDigit(num, i)
        product == BMul(floor_val, NUM2INT_NBASE)
        room    == BSub(PG_INT64_MAX, I64(product))
        sum     == BAdd(I64(product), digit)
    IN  IF i >= integral_ndigits THEN {}
        ELSE {product, room}
             \cup (IF BGt(digit, I64(room)) THEN {}
                   ELSE {sum} \cup floor_loop_values_unchecked(num, integral_ndigits,
                                                               i + 1, I64(sum)))

\* the expressions of the loop over the integral digits
RECURSIVE floor_loop_values(_, _, _, _)
floor_loop_values(num, integral_ndigits, i, floor_val) ==
    LET digit   == PaddedDigit(num, i)
        product == BMul(floor_val, NUM2INT_NBASE)
        room    == BSub(PG_INT64_MAX, I64(product))
        sum     == BAdd(I64(product), digit)
    IN  IF i >= integral_ndigits THEN {}
        ELSE IF BGt(floor_val, BDivTrunc(PG_INT64_MAX, NUM2INT_NBASE)) THEN {}
        ELSE {product, room}
             \cup (IF BGt(digit, I64(room)) THEN {}
                   ELSE {sum} \cup floor_loop_values(num, integral_ndigits,
                                                     i + 1, I64(sum)))

\* the loop's expressions and those of the adjustment `-floor_val - 1`
floor_walk_values(num, negative) ==
    LET integral_ndigits == NUM2INT_NUMERIC_WEIGHT(num) + 1
        walk == floor_loop(num, integral_ndigits, 0, BZero)
    IN  floor_loop_values(num, integral_ndigits, 0, BZero)
        \cup (IF walk.ok /\ negative
              THEN {BNeg(walk.result), BSub(I64(BNeg(walk.result)), BOne)}
              ELSE {})

num2int_numeric_floor_to_int64_values(num) ==
    LET ndigits == NUM2INT_NUMERIC_NDIGITS(num)
        weight  == NUM2INT_NUMERIC_WEIGHT(num)
    IN  IF ndigits = 0 THEN {}
        ELSE IF weight > 4 THEN {}
        ELSE IF weight + 1 <= 0 THEN {}
        ELSE IF ndigits <= weight + 1 THEN num2int_numeric_to_int64_values(num)
        ELSE floor_walk_values(num, NUM2INT_NUMERIC_SIGN(num) # NUM2INT_NUMERIC_POS)

numeric_cmp_int64_direct_values(num, val) ==
    LET num_sign == num2int_numeric_sign(num)
    IN  IF NUM2INT_NUMERIC_IS_SPECIAL(num) THEN {}
        ELSE IF num_sign # Sgn(val) THEN {}
        ELSE IF num_sign = 0 THEN {}
        ELSE num2int_numeric_to_int64_values(num)
             \cup (IF num2int_numeric_to_int64(num).ok THEN {}
                   ELSE IF num2int_numeric_is_integral(num) THEN {}
                   ELSE IF NUM2INT_NUMERIC_WEIGHT(num) > 4 THEN {}
                   ELSE IF NUM2INT_NUMERIC_WEIGHT(num) + 1 <= 0 THEN {}
                   ELSE floor_walk_values(num, num_sign < 0))

NextWalks == NextDigits \/ NextNumeric

SpecWalks == InitNumeric /\ [][NextWalks]_vars

AllInt64(values) == \A v \in values : InType(v, INT8OID)

\* the integral part of the numeric is beyond what the accumulator can hold
WalkOverflows(num) ==
    /\ ~NUM2INT_NUMERIC_IS_SPECIAL(num)
    /\ BGt(BAbs(ExactTrunc(num)), PG_INT64_MAX)
    /\ ~(num2int_numeric_is_integral(num) /\ ExactTrunc(num) = PG_INT64_MIN)

\* C24: in num2int_numeric_to_int64, num2int_numeric_floor_to_int64 and the
\* fractional path of numeric_cmp_int64_direct every int64 expression of the
\* walk, the final negation and `-floor_val - 1` included, has its exact
\* value within PG_INT64_MIN..PG_INT64_MAX, and a numeric whose integral
\* part the accumulator cannot hold ends the walk without a value: false
\* from the two extractions, the sign of the numeric from the comparison.
C24_DigitWalksNeverOverflow ==
    /\ IsToInt64Call =>
           /\ AllInt64(num2int_numeric_to_int64_values(args.num))
           /\ WalkOverflows(args.num) => ~ret.out.ok
    /\ IsFloorCall =>
           /\ AllInt64(num2int_numeric_floor_to_int64_values(args.num))
           /\ WalkOverflows(args.num) => ~ret.out.ok
    /\ IsNumericCmpCall =>
           /\ AllInt64(numeric_cmp_int64_direct_values(args.num, args.val))
           /\ WalkOverflows(args.num) => ret.out = num2int_numeric_sign(args.num)

\* the floor of -(2^63 + 0.5) was asked for: PG_INT64_MAX - floor_val left
\* room for 5807, the digit was 5808, and the extraction gave no value
C24_Witness ==
    /\ IsFloorCall
    /\ args.num = NumericOf(PG_INT64_MIN, TRUE)
    /\ ~ret.out.ok
    /\ BInt(5807) \in num2int_numeric_floor_to_int64_values(args.num)

-----------------------------------------------------------------------------
(* What a rewritten predicate keeps of the original node.                  *)

\* the support function has returned a native integer comparison
IsRewriteCall ==
    \/ ret.fn = "Simplify" /\ is_opclause(ret.out)
    \/ ret.fn = "IndexCondition" /\ ret.out # NullNode

Rewritten == IF ret.fn = "Simplify" THEN ret.out ELSE ret.out.elements[1]

\* the node the request was made for
Original == IF ret.fn = "Simplify" THEN args.fcall ELSE args.clause

OriginalVar == IF args.const_left THEN Original.args[2] ELSE Original.args[1]

-----------------------------------------------------------------------------
(* The equality test numeric = integer, used by the '=' and '<>' operators, *)
(* next to the three-way comparator used by the ordering operators.         *)

\* the both-zero case answering false
numeric_eq_int64_direct_zero_false(num, val) ==
    LET num_sign == num2int_numeric_sign(num)
        val_sign == Sgn(val)
        direct   == num2int_numeric_to_int64(num)
    IN  IF NUM2INT_NUMERIC_IS_SPECIAL(num) THEN FALSE
        ELSE IF num_sign # val_sign THEN FALSE
        ELSE IF num_sign = 0 THEN FALSE
        ELSE IF ~direct.ok THEN FALSE
        ELSE direct.result = val

numeric_eq_int64_direct(num, val) ==
    LET num_sign == num2int_numeric_sign(num)
        val_sign == Sgn(val)
        direct   == num2int_numeric_to_int64(num)
    IN  IF NUM2INT_NUMERIC_IS_SPECIAL(num) THEN FALSE
        ELSE IF num_sign # val_sign THEN FALSE
        ELSE IF num_sign = 0 THEN TRUE
        ELSE IF ~direct.ok THEN FALSE
        ELSE direct.result = val

\* numeric_eq_int2, numeric_eq_int4, numeric_eq_int8: the integer argument
\* is widened to int64
NumericEqInt2 ==
    /\ args.int_type = INT2OID
    /\ ret' = [fn |-> "numeric_eq", out |-> numeric_eq_int64_direct(args.num, I64(args.val))]
    /\ UNCHANGED <<oid_cache, build, args>>

NumericEqInt4 ==
    /\ args.int_type = INT4OID
    /\ ret' = [fn |-> "numeric_eq", out |-> numeric_eq_int64_direct(args.num, I64(args.val))]
    /\ UNCHANGED <<oid_cache, build, args>>

NumericEqInt8 ==
    /\ args.int_type = INT8OID
    /\ ret' = [fn |-> "numeric_eq", out |-> numeric_eq_int64_direct(args.num, args.val)]
    /\ UNCHANGED <<oid_cache, build, args>>

NextEquality ==
    NumericEqInt2 \/ NumericEqInt4 \/ NumericEqInt8 \/ NextNumeric

SpecEquality == InitNumeric /\ [][NextEquality]_vars

IsNumericEqCall == ret.fn = "numeric_eq"

\* C25: for every numeric d, finite or special, and every integer i,
\* numeric_eq_int64_direct(d, i) is true exactly when
\* numeric_cmp_int64_direct(d, i) is 0, so '=' and '<>' agree with the
\* ordering operators and with the btree comparison function.
C25_EqualityAgreesWithCmp ==
    /\ IsNumericEqCall =>
           (ret.out <=> (numeric_cmp_int64_direct(args.num, args.val) = 0))
    /\ IsNumericCmpCall =>
           ((ret.out = 0) <=> numeric_eq_int64_direct(args.num, args.val))

\* 9223372036854775807 as a numeric has been found equal to the int8 maximum
C25_Witness ==
    /\ IsNumericEqCall
    /\ args.num = NumericOf(PG_INT64_MAX, FALSE)
    /\ args.val = PG_INT64_MAX
    /\ ret.out = TRUE
    /\ numeric_cmp_int64_direct(args.num, args.val) = 0

-----------------------------------------------------------------------------
(* The clause the IndexCondition branch hands to the index machinery.      *)

IsIndexConditionCall == ret.fn = "IndexCondition"

\* the constant's floor lies within the column's type
ConstantInRange ==
    /\ IsFiniteConst(args.const_node)
    /\ ~ConstantAbove
    /\ ~ConstantBelow

\* the native clause of the returned one-element list
IndexClause == ret.out.elements[1]

\* the returned clause is satisfied by exactly the column values that
\* satisfy `col op constant`
IndexClauseExact ==
    (IsIndexConditionCall /\ ~args.const_left /\ ConstantInRange
        /\ ret.out # NullNode) =>
        /\ ~ret.lossy
        /\ SameMeaning(args, IndexClause)

\* the same, NotEqual with a fractional constant left aside
IndexClauseExactButFractionalNe ==
    (IsIndexConditionCall /\ ~args.const_left /\ ConstantInRange
        /\ ret.out # NullNode
        /\ ~(args.op_type = OP_TYPE_NE /\ ExactHasFractionConst(args.const_node))) =>
        /\ ~ret.lossy
        /\ SameMeaning(args, IndexClause)

\* nothing is returned for a constant that has no integer counterpart
IndexConditionDeclines ==
    (IsIndexConditionCall /\ ~args.const_left
        /\ \/ IsSpecialConst(args.const_node)
           \/ IsFiniteConst(args.const_node) /\ (ConstantAbove \/ ConstantBelow)
           \/ ConstantInRange /\ args.op_type = OP_TYPE_EQ
                /\ ExactHasFractionConst(args.const_node)) =>
        ret.out = NullNode

\* the same for decimal constants only
IndexConditionDeclinesNumeric ==
    args.const_node.consttype = NUMERICOID => IndexConditionDeclines

\* C28: a native clause returned by the IndexCondition branch (never marked
\* lossy) is satisfied by exactly the column values that satisfy
\* `col op constant`, for every operator, width and in-range finite constant,
\* NotEqual with a fractional constant included; nothing is returned for
\* out-of-range and NaN/Infinity constants and for Equal with a fractional
\* constant.
C28_IndexConditionExact ==
    /\ IndexClauseExact
    /\ IndexConditionDeclines

\* `int4col <> 10.5` has been returned as `int4col <> 10`, not satisfied by
\* the column value 10
FractionalNeReturned ==
    /\ IsIndexConditionCall
    /\ ~args.const_left
    /\ args.op_type = OP_TYPE_NE
    /\ args.int_type = INT4OID
    /\ args.const_node = ConstNode(NUMERICOID, NumericOf(BInt(10), TRUE))
    /\ ret.out # NullNode
    /\ IndexClause.opno = get_native_op_oid(OP_TYPE_NE, INT4OID)
    /\ IndexClause.args[2].constvalue = BInt(10)
    /\ ~ResultHolds(IndexClause, INT4OID, BInt(10))
    /\ OriginalHolds(args, BInt(10))

-----------------------------------------------------------------------------
(* The SQL-callable operator functions: value on the left (numeric_lt_int2, *)
(* float8_ge_int8, ...) and integer on the left (int2_lt_numeric, ...).     *)

\* the internal three-way comparator of a value type and an integer type
cmp_internal(vtype, int_type, x, ival, b) ==
    IF vtype = NUMERICOID
    THEN (IF int_type = INT2OID THEN numeric_cmp_int2_internal(x, ival)
          ELSE IF int_type = INT4OID THEN numeric_cmp_int4_internal(x, ival)
          ELSE numeric_cmp_int8_internal(x, ival))
    ELSE IF vtype = FLOAT4OID
    THEN (IF int_type = INT2OID THEN float4_cmp_int2_internal(x, ival, b)
          ELSE IF int_type = INT4OID THEN float4_cmp_int4_internal(x, ival, b)
          ELSE float4_cmp_int8_internal(x, ival, b))
    ELSE (IF int_type = INT2OID THEN float8_cmp_int2_internal(x, ival, b)
          ELSE IF int_type = INT4OID THEN float8_cmp_int4_internal(x, ival, b)
          ELSE float8_cmp_int8_internal(x, ival, b))

\* the sign test of a value-on-left function on the comparator's result
value_sign_test(op_type, cmp) ==
    IF op_type = OP_TYPE_EQ THEN cmp = 0
    ELSE IF op_type = OP_TYPE_NE THEN cmp # 0
    ELSE IF op_type = OP_TYPE_LT THEN cmp < 0
    ELSE IF op_type = OP_TYPE_GT THEN cmp > 0
    ELSE IF op_type = OP_TYPE_LE THEN cmp <= 0
    ELSE cmp >= 0

\* the sign test of an integer-on-left function: the comparator is called
\* with the value first, so the test is flipped for the ordering operators
int_sign_test(op_type, cmp) ==
    IF op_type = OP_TYPE_EQ THEN cmp = 0
    ELSE IF op_type = OP_TYPE_NE THEN cmp # 0
    ELSE IF op_type = OP_TYPE_LT THEN cmp > 0
    ELSE IF op_type = OP_TYPE_GT THEN cmp < 0
    ELSE IF op_type = OP_TYPE_LE THEN cmp >= 0
    ELSE cmp <= 0

\* numeric '=' and '<>', on either side: the equality test or its negation
numeric_eq_ne(op_type, num, ival) ==
    IF op_type = OP_TYPE_EQ THEN numeric_eq_int64_direct(num, I64(ival))
    ELSE ~numeric_eq_int64_direct(num, I64(ival))

\* <vtype>_<op>_<int>(x, ival): `int cmp = ..._internal(x, ival)` and the
\* test of its sign
value_op_int(op_type, vtype, int_type, x, ival, b) ==
    IF vtype = NUMERICOID /\ op_type \in {OP_TYPE_EQ, OP_TYPE_NE}
    THEN numeric_eq_ne(op_type, x, ival)
    ELSE CHOOSE r \in {value_sign_test(op_type, cmp) :
                          cmp \in {cmp_internal(vtype, int_type, x, ival, b)}} : TRUE

\* the integer-on-left functions testing the sign without flipping it
int_op_value_unflipped(op_type, int_type, vtype, ival, x, b) ==
    value_op_int(op_type, vtype, int_type, x, ival, b)

\* <int>_<op>_<vtype>(ival, x): the same calls on the swapped arguments
int_op_value(op_type, int_type, vtype, ival, x, b) ==
    IF vtype = NUMERICOID /\ op_type \in {OP_TYPE_EQ, OP_TYPE_NE}
    THEN numeric_eq_ne(op_type, x, ival)
    ELSE CHOOSE r \in {int_sign_test(op_type, cmp) :
                          cmp \in {cmp_internal(vtype, int_type, x, ival, b)}} : TRUE

\* numeric_cmp_int2/4/8(num, val)
numeric_cmp_int(int_type, num, val) ==
    cmp_internal(NUMERICOID, int_type, num, val, DefaultBuild)

\* int2/4/8_cmp_numeric(val, num)
int_cmp_numeric(int_type, val, num) ==
    0 - cmp_internal(NUMERICOID, int_type, num, val, DefaultBuild)

\* the two arguments of a call, whichever the value's type
ArgType  == IF HasNumericSource THEN NUMERICOID ELSE args.ftype
ArgValue == IF HasNumericSource THEN args.num ELSE args.fval
ArgInt   == IF HasNumericSource THEN args.val ELSE args.ival

ValueOpInt ==
    /\ ret' = [fn |-> "value_op_int",
               out |-> value_op_int(args.op_type, ArgType, args.int_type,
                                    ArgValue, ArgInt, build)]
    /\ UNCHANGED <<oid_cache, build, args>>

IntOpValue ==
    /\ ret' = [fn |-> "int_op_value",
               out |-> int_op_value(args.op_type, args.int_type, ArgType,
                                    ArgInt, ArgValue, build)]
    /\ UNCHANGED <<oid_cache, build, args>>

NumericCmpInt ==
    /\ HasNumericSource
    /\ ret' = [fn |-> "numeric_cmp_int",
               out |-> numeric_cmp_int(args.int_type, args.num, args.val)]
    /\ UNCHANGED <<oid_cache, build, args>>

IntCmpNumeric ==
    /\ HasNumericSource
    /\ ret' = [fn |-> "int_cmp_numeric",
               out |-> int_cmp_numeric(args.int_type, args.val, args.num)]
    /\ UNCHANGED <<oid_cache, build, args>>

NextWrappers == ValueOpInt \/ IntOpValue \/ NumericCmpInt \/ IntCmpNumeric

\* the integers an operator function is called with: zero and the integers
\* around the value, or zero and the limits of the type for a special value
WrapperInts(special, around, int_type) ==
    IF special THEN {BZero, TypeMin(int_type), TypeMax(int_type)}
    ELSE IntsOfType({BZero} \cup around, int_type)

\* NaN, the infinities, and the values at the limits of the integer types
\* with and without a fraction
WrapperNumerics == SpecialNumerics \cup BoundaryNumerics

WrapperNumericArgs ==
    UNION {{[num |-> n, val |-> v, int_type |-> t, op_type |-> op] :
               v \in WrapperInts(NUM2INT_NUMERIC_IS_SPECIAL(n),
                                 IF NUM2INT_NUMERIC_IS_SPECIAL(n) THEN {}
                                 ELSE Around(ExactFloor(n)), t),
               op \in OpTypes} :
              n \in WrapperNumerics, t \in IntTypes}

WrapperFloatArgsOf(ft) ==
    UNION {{[ftype |-> ft, fval |-> f, int_type |-> t, ival |-> v, op_type |-> op] :
               v \in WrapperInts(f.kind # "fin",
                                 IF f.kind # "fin" THEN {}
                                 ELSE Around(TruncToInt(f)), t),
               op \in OpTypes} :
              f \in FloatConstants(ft), t \in IntTypes}

WrapperFloatArgs == WrapperFloatArgsOf(FLOAT4OID) \cup WrapperFloatArgsOf(FLOAT8OID)

InitWrappers ==
    /\ oid_cache = EmptyCache
    /\ args \in WrapperNumericArgs \cup WrapperFloatArgs
    /\ build \in IF HasNumericSource THEN {DefaultBuild}
                 ELSE {b \in Builds : b.abs_min = DefaultBuild.abs_min}
    /\ ret = NoCall

SpecWrappers == InitWrappers /\ [][NextWrappers]_vars

\* the operator with its operands swapped
Commutator(op_type) ==
    IF op_type = OP_TYPE_LT THEN OP_TYPE_GT
    ELSE IF op_type = OP_TYPE_GT THEN OP_TYPE_LT
    ELSE IF op_type = OP_TYPE_LE THEN OP_TYPE_GE
    ELSE IF op_type = OP_TYPE_GE THEN OP_TYPE_LE
    ELSE op_type

\* C29: every integer-on-left function returns what the flipped
\* value-on-left function returns on the swapped arguments, for every numeric
\* or float x, NaN and the infinities included, and every integer i of each
\* width: int_lt(i, x) = x_gt(x, i), int_gt = x_lt, int_le = x_ge,
\* int_ge = x_le, int_eq = x_eq, int_ne = x_ne; and
\* intN_cmp_numeric(i, d) = -numeric_cmp_intN(d, i).
C29_CommutatorsAgree ==
    /\ ret.fn = "int_op_value" =>
           ret.out = value_op_int(Commutator(args.op_type), ArgType, args.int_type,
                                  ArgValue, ArgInt, build)
    /\ ret.fn = "value_op_int" =>
           ret.out = int_op_value(Commutator(args.op_type), args.int_type, ArgType,
                                  ArgInt, ArgValue, build)
    /\ ret.fn = "int_cmp_numeric" =>
           ret.out = 0 - numeric_cmp_int(args.int_type, args.num, args.val)
    /\ ret.fn = "numeric_cmp_int" =>
           ret.out = 0 - int_cmp_numeric(args.int_type, args.val, args.num)

\* int4 10 < numeric 10.5 has been found true, as 10.5 > 10 is
C29_Witness ==
    /\ ret.fn = "int_op_value"
    /\ args.op_type = OP_TYPE_LT
    /\ HasNumericSource
    /\ args.int_type = INT4OID
    /\ args.num = NumericOf(BInt(10), TRUE)
    /\ args.val = BInt(10)
    /\ ret.out = TRUE
    /\ value_op_int(OP_TYPE_GT, NUMERICOID, INT4OID, args.num, args.val, build)

====
